---- MODULE Spec2Model ----
(***************************************************************************)
(* A model of alertmanager-client-go: the client options (endpoint,        *)
(* basic auth, TLS, proxy, timeout, base labels), the two Emit variants    *)
(* of the lineage (response-returning and error-returning) and the alert   *)
(* value they merge and send.                                              *)
(*                                                                         *)
(* Go strings that the code parses or assembles (URLs) are sequences of    *)
(* one-character strings, so that url.Parse and URL.String are computed    *)
(* character by character.  Other strings (keys, values, error names) are  *)
(* TLA+ strings.  A Go pointer is a sequence of length 0 (nil) or 1.       *)
(***************************************************************************)
EXTENDS Integers, Sequences, FiniteSets, TLC

(***************************************************************************)
(* Strings                                                                 *)
(***************************************************************************)
Letters ==
    {"a", "b", "c", "d", "e", "f", "g", "h", "i", "j", "k", "l", "m", "n", "o", "p",
     "q", "r", "s", "t", "u", "v", "w", "x", "y", "z", "H"}
Digits == {"0", "1", "2", "3", "4", "5", "6", "7", "8", "9"}

\* strings.ToLower on the letters of the alphabet
ToLowerChar(c) == IF c = "H" THEN "h" ELSE c
ToLower(s) == [i \in 1..Len(s) |-> ToLowerChar(s[i])]

\* strings.Index / strings.LastIndex for a one-byte separator: 0 when absent
Positions(s, c) == {i \in 1..Len(s) : s[i] = c}
Index(s, c) ==
    LET at == Positions(s, c)
    IN IF at = {} THEN 0 ELSE CHOOSE i \in at : \A j \in at : i <= j
LastIndex(s, c) ==
    LET at == Positions(s, c)
    IN IF at = {} THEN 0 ELSE CHOOSE i \in at : \A j \in at : i >= j
Count(s, c) == Cardinality(Positions(s, c))
From(s, i) == SubSeq(s, i, Len(s))
Upto(s, i) == SubSeq(s, 1, i)
HasPrefix(s, p) == Len(s) >= Len(p) /\ Upto(s, Len(p)) = p
\* strings.Cut(s, c): <<before, after>>; after is empty when c is absent
CutBefore(s, c) == IF Index(s, c) = 0 THEN s ELSE Upto(s, Index(s, c) - 1)
CutAfter(s, c) == IF Index(s, c) = 0 THEN <<>> ELSE From(s, Index(s, c) + 1)

(***************************************************************************)
(* net/url as the options use it: url.Parse(raw) and URL.String().         *)
(* The alphabet has no '%', '[', control bytes or blanks, so the           *)
(* unescaping steps of Parse change nothing and cannot fail.               *)
(***************************************************************************)
\* getScheme: the position of the first byte that ends the scheme scan
SchemeStops(raw) ==
    {i \in 1..Len(raw) : ~(raw[i] \in Letters \/ (raw[i] \in Digits /\ i > 1))}
First(stops) == IF stops = {} THEN 0 ELSE CHOOSE i \in stops : \A j \in stops : i <= j
SchemeAt(raw, i) ==
    IF i = 0 \/ raw[i] /= ":"
    THEN [err |-> "nil", scheme |-> <<>>, rest |-> raw]
    ELSE IF i = 1
         THEN [err |-> "missing protocol scheme", scheme |-> <<>>, rest |-> <<>>]
         ELSE [err |-> "nil", scheme |-> Upto(raw, i - 1), rest |-> From(raw, i + 1)]
GetScheme(raw) == SchemeAt(raw, First(SchemeStops(raw)))

\* validOptionalPort: "" or ":" followed by digits only
ValidOptionalPort(port) ==
    port = <<>> \/ (port[1] = ":" /\ \A i \in 2..Len(port) : port[i] \in Digits)
\* parseHost: only the port is validated on this alphabet
PortFrom(host, colon) == IF colon = 0 THEN <<>> ELSE From(host, colon)
ParseHostErr(host) ==
    IF ValidOptionalPort(PortFrom(host, LastIndex(host, ":"))) THEN "nil" ELSE "invalid port"
\* parseAuthority: user information is what precedes the last '@'
HostFrom(authority, at) == IF at = 0 THEN authority ELSE From(authority, at + 1)
AuthorityHost(authority) == HostFrom(authority, LastIndex(authority, "@"))
UserFrom(info) ==
    IF Index(info, ":") = 0
    THEN << [username |-> info, password |-> <<>>, passwordSet |-> FALSE] >>
    ELSE << [username |-> CutBefore(info, ":"), password |-> CutAfter(info, ":"),
             passwordSet |-> TRUE] >>
AuthorityUser(authority) ==
    IF LastIndex(authority, "@") = 0 THEN <<>>
    ELSE UserFrom(Upto(authority, LastIndex(authority, "@") - 1))

ZeroURL ==
    [err |-> "nil", Scheme |-> <<>>, Opaque |-> <<>>, User |-> <<>>, Host |-> <<>>,
     Path |-> <<>>, ForceQuery |-> FALSE, RawQuery |-> <<>>, Fragment |-> <<>>,
     OmitHost |-> FALSE]
ParseError(e) == [ZeroURL EXCEPT !.err = e]

\* url.parse(rawURL, viaRequest = false) in its steps: the authority
ParseAuthority(host, user, path, base) ==
    IF ParseHostErr(host) /= "nil" THEN ParseError(ParseHostErr(host))
    ELSE [base EXCEPT !.User = user, !.Host = host, !.Path = path]
SplitAuthority(authority, path, base) ==
    ParseAuthority(AuthorityHost(authority), AuthorityUser(authority), path, base)
\* rest[2:] is cut at its first '/': the authority before it, the path from it
AfterSlashes(after, base) ==
    SplitAuthority(CutBefore(after, "/"),
                   IF Index(after, "/") = 0 THEN <<>> ELSE From(after, Index(after, "/")),
                   base)
\* the part between the scheme and the query: opaque, authority and path, or path
ParseHier(scheme, rest, base) ==
    IF ~HasPrefix(rest, <<"/">>) /\ scheme /= <<>> THEN [base EXCEPT !.Opaque = rest]
    ELSE IF ~HasPrefix(rest, <<"/">>) /\ Index(CutBefore(rest, "/"), ":") /= 0
         THEN ParseError("first path segment in URL cannot contain colon")
    ELSE IF /\ scheme /= <<>> \/ ~HasPrefix(rest, <<"/", "/", "/">>)
            /\ HasPrefix(rest, <<"/", "/">>)
         THEN AfterSlashes(From(rest, 3), base)
    ELSE [base EXCEPT !.Path = rest, !.OmitHost = scheme /= <<>>]
\* the query: a lone trailing '?' forces an empty query
ParseQuery(scheme, rest, force) ==
    ParseHier(scheme,
              IF force THEN Upto(rest, Len(rest) - 1) ELSE CutBefore(rest, "?"),
              [ZeroURL EXCEPT !.Scheme = ToLower(scheme), !.ForceQuery = force,
                              !.RawQuery = IF force THEN <<>> ELSE CutAfter(rest, "?")])
ParseRest(gs) ==
    IF gs.err /= "nil" THEN ParseError(gs.err)
    ELSE ParseQuery(gs.scheme, gs.rest,
                    gs.rest /= <<>> /\ gs.rest[Len(gs.rest)] = "?" /\ Count(gs.rest, "?") = 1)
ParseNoFragment(raw) == ParseRest(GetScheme(raw))

\* url.Parse: the fragment is cut off first and set last
SetFragment(u, fragment) == IF u.err /= "nil" THEN u ELSE [u EXCEPT !.Fragment = fragment]
ParseURL(raw) == SetFragment(ParseNoFragment(CutBefore(raw, "#")), CutAfter(raw, "#"))

\* escape(s, encodeUserPassword): '@', '/', '?' and ':' are percent-encoded
RECURSIVE EscapeUserPassword(_)
EscapeUserPassword(s) ==
    IF s = <<>> THEN <<>>
    ELSE (CASE Head(s) = "@" -> <<"%", "4", "0">>
            [] Head(s) = ":" -> <<"%", "3", "A">>
            [] Head(s) = "/" -> <<"%", "2", "F">>
            [] Head(s) = "?" -> <<"%", "3", "F">>
            [] OTHER -> <<Head(s)>>) \o EscapeUserPassword(Tail(s))
\* Userinfo.String
UserString(user) ==
    EscapeUserPassword(user.username)
        \o (IF user.passwordSet THEN <<":">> \o EscapeUserPassword(user.password) ELSE <<>>)

\* URL.String for a URL without an opaque part; host and path bytes of
\* the alphabet need no escaping
URLString(u) ==
    LET scheme == IF u.Scheme /= <<>> THEN u.Scheme \o <<":">> ELSE <<>>
        slashes == IF /\ u.Scheme /= <<>> \/ u.Host /= <<>> \/ u.User /= <<>>
                      /\ ~(u.OmitHost /\ u.Host = <<>> /\ u.User = <<>>)
                      /\ u.Host /= <<>> \/ u.Path /= <<>> \/ u.User /= <<>>
                   THEN <<"/", "/">> ELSE <<>>
        user == IF u.User /= <<>> THEN UserString(u.User[1]) \o <<"@">> ELSE <<>>
        dot == IF /\ scheme \o slashes \o user \o u.Host = <<>>
                  /\ Index(CutBefore(u.Path, "/"), ":") /= 0
               THEN <<".", "/">> ELSE <<>>
        sep == IF u.Path /= <<>> /\ u.Path[1] /= "/" /\ u.Host /= <<>> THEN <<"/">> ELSE <<>>
        query == IF u.ForceQuery \/ u.RawQuery /= <<>> THEN <<"?">> \o u.RawQuery ELSE <<>>
        fragment == IF u.Fragment /= <<>> THEN <<"#">> \o u.Fragment ELSE <<>>
    IN IF u.Opaque /= <<>> THEN scheme \o u.Opaque \o query \o fragment
       ELSE scheme \o slashes \o user \o u.Host \o sep \o dot \o u.Path \o query
                \o fragment

(***************************************************************************)
(* Go maps: a function from keys to values; the nil map is a value apart.  *)
(***************************************************************************)
EmptyMap == [k \in {} |-> ""]
NilMap == [k \in {"<nil>"} |-> "<nil>"]
Entries(m) == IF m = NilMap THEN EmptyMap ELSE m
\* if m == nil { m = make(map) }; m[k] = v
MapSet(m, k, v) ==
    [x \in DOMAIN Entries(m) \cup {k} |-> IF x = k THEN v ELSE Entries(m)[x]]
\* maps.Copy(dst, src) on a non-nil dst
MapsCopy(dst, src) ==
    [x \in DOMAIN dst \cup DOMAIN Entries(src) |->
        IF x \in DOMAIN Entries(src) THEN Entries(src)[x] ELSE dst[x]]

(***************************************************************************)
(* The client: the Alertmanager struct and the http.Client it configures.  *)
(***************************************************************************)
TLS10 == 769
TLS11 == 770
TLS12 == 771
TLS13 == 772

NoProxy == [kind |-> "nil", url |-> ZeroURL]
ProxyFromEnvironment == [kind |-> "FromEnvironment", url |-> ZeroURL]
ProxyURL(u) == [kind |-> "URL", url |-> u]

\* &http.Transport{Proxy: proxy}
NewTransport(proxy) ==
    [kind |-> "http.Transport", Proxy |-> proxy, TLSClientConfig |-> <<>>]
\* &tls.Config{MinVersion: min}
NewTLSConfig(min) ==
    [RootCAs |-> <<>>, InsecureSkipVerify |-> FALSE, MinVersion |-> min, MaxVersion |-> 0]

\* transport, ok := a.client.Transport.(*http.Transport); if !ok { transport = fresh }
TransportOr(client, fresh) ==
    IF client.Transport /= <<>> /\ client.Transport[1].kind = "http.Transport"
    THEN client.Transport[1] ELSE fresh
\* if transport.TLSClientConfig == nil { transport.TLSClientConfig = fresh }
TLSConfigOr(transport, fresh) ==
    IF transport.TLSClientConfig = <<>> THEN fresh ELSE transport.TLSClientConfig[1]

\* &Alertmanager{client: client, labels: make(...), annotations: make(...)}
ZeroAlertmanager ==
    [endpoint |-> <<>>, username |-> <<>>, password |-> <<>>, authHeader |-> <<>>,
     labels |-> EmptyMap, annotations |-> EmptyMap]
\* &http.Client{}
ZeroHTTPClient == [Timeout |-> 0, Transport |-> <<>>]

AlertsPath == <<"/", "a", "p", "i", "/", "v", "2", "/", "a", "l", "e", "r", "t", "s">>

(***************************************************************************)
(* The options.  Each takes the client c = [am, hc] it is applied to and   *)
(* yields [am, hc, err]: the client afterwards and the error returned.     *)
(***************************************************************************)
Done(c) == [am |-> c.am, hc |-> c.hc, err |-> "nil"]
Failed(c, e) == [am |-> c.am, hc |-> c.hc, err |-> e]

\* an endpoint that keeps the path of the URL
EndpointFrom_PathKept(u, c) ==
    IF u.err /= "nil" THEN Failed(c, "failed to parse endpoint")
    ELSE IF u.Scheme = <<>> \/ u.Host = <<>> THEN Failed(c, "ErrInvalidEndpoint")
    ELSE Done([c EXCEPT !.am.endpoint = URLString(u) \o AlertsPath])
\* an endpoint accepted on its scheme alone
EndpointFrom_SchemeOnly(u, c) ==
    IF u.err /= "nil" THEN Failed(c, "failed to parse endpoint")
    ELSE IF u.Scheme = <<>> THEN Failed(c, "ErrInvalidEndpoint")
    ELSE Done([c EXCEPT !.am.endpoint = URLString([u EXCEPT !.Path = <<>>]) \o AlertsPath])
\* WithEndpoint once url.Parse(endpoint) has given u
EndpointFrom(u, c) ==
    IF u.err /= "nil" THEN Failed(c, "failed to parse endpoint")
    ELSE IF u.Scheme = <<>> \/ u.Host = <<>> THEN Failed(c, "ErrInvalidEndpoint")
    ELSE Done([c EXCEPT !.am.endpoint = URLString([u EXCEPT !.Path = <<>>]) \o AlertsPath])
\* a failed WithEndpoint that leaves the client without endpoint
WithEndpoint_ClearedOnFailure(endpoint, c) ==
    IF endpoint = <<>> \/ EndpointFrom(ParseURL(endpoint), c).err /= "nil"
    THEN [EndpointFrom(ParseURL(endpoint), c) EXCEPT !.am.endpoint = <<>>]
    ELSE EndpointFrom(ParseURL(endpoint), c)
WithEndpoint(endpoint, c) ==
    IF endpoint = <<>> THEN Failed(c, "ErrEndpointRequired")
    ELSE EndpointFrom(ParseURL(endpoint), c)

WithBasicAuth(username, password, c) ==
    Done([c EXCEPT !.am.username = username, !.am.password = password])

\* x509's AppendCertsFromPEM: the certificates among the PEM blocks; a block
\* that is no certificate is skipped without an error
PEMCerts(caCert) == {caCert[i] : i \in {j \in 1..Len(caCert) : caCert[j] /= "garbage"}}

\* sys is what x509.SystemCertPool() returned: [ok, certs]
WithCustomCA(caCert, sys, c) ==
    LET pool == (IF sys.ok THEN sys.certs ELSE {})
                    \cup (IF Len(caCert) > 0 THEN PEMCerts(caCert) ELSE {})
        transport == TransportOr(c.hc, NewTransport(ProxyFromEnvironment))
        config == TLSConfigOr(transport, NewTLSConfig(TLS12))
    IN Done([c EXCEPT !.hc.Transport =
                << [transport EXCEPT !.TLSClientConfig =
                        << [config EXCEPT !.RootCAs = <<pool>>] >>] >>])

\* the flag set on a configuration made without the TLS 1.2 minimum
WithInsecure_BareConfig(insecureSkipVerify, c) ==
    LET transport == TransportOr(c.hc, NewTransport(ProxyFromEnvironment))
        config == TLSConfigOr(transport, NewTLSConfig(0))
    IN Done([c EXCEPT !.hc.Transport =
                << [transport EXCEPT !.TLSClientConfig =
                        << [config EXCEPT !.InsecureSkipVerify = insecureSkipVerify] >>] >>])
WithInsecure(insecureSkipVerify, c) ==
    LET transport == TransportOr(c.hc, NewTransport(ProxyFromEnvironment))
        config == TLSConfigOr(transport, NewTLSConfig(TLS12))
    IN Done([c EXCEPT !.hc.Transport =
                << [transport EXCEPT !.TLSClientConfig =
                        << [config EXCEPT !.InsecureSkipVerify = insecureSkipVerify] >>] >>])

WithMinTLSVersion(minVersion, c) ==
    LET transport == TransportOr(c.hc, NewTransport(ProxyFromEnvironment))
        config == TLSConfigOr(transport, NewTLSConfig(0))
    IN Done([c EXCEPT !.hc.Transport =
                << [transport EXCEPT !.TLSClientConfig =
                        << [config EXCEPT !.MinVersion = minVersion] >>] >>])

\* a maximum version set on a configuration made without the TLS 1.2 minimum
WithMaxTLSVersion_BareConfig(maxVersion, c) ==
    LET transport == TransportOr(c.hc, NewTransport(ProxyFromEnvironment))
        config == TLSConfigOr(transport, NewTLSConfig(0))
    IN Done([c EXCEPT !.hc.Transport =
                << [transport EXCEPT !.TLSClientConfig =
                        << [config EXCEPT !.MaxVersion = maxVersion] >>] >>])
WithMaxTLSVersion(maxVersion, c) ==
    LET transport == TransportOr(c.hc, NewTransport(ProxyFromEnvironment))
        config == TLSConfigOr(transport, NewTLSConfig(TLS12))
    IN Done([c EXCEPT !.hc.Transport =
                << [transport EXCEPT !.TLSClientConfig =
                        << [config EXCEPT !.MaxVersion = maxVersion] >>] >>])

\* a proxy installed on a transport made anew
ProxyFrom_NewTransport(parsedURL, c) ==
    IF parsedURL.err /= "nil" THEN Failed(c, "invalid proxy URL")
    ELSE Done([c EXCEPT !.hc.Transport =
                 << [NewTransport(NoProxy) EXCEPT !.Proxy = ProxyURL(parsedURL)] >>])
\* WithProxyURL once url.Parse(proxyURL) has given parsedURL
ProxyFrom(parsedURL, c) ==
    LET transport == TransportOr(c.hc, NewTransport(NoProxy))
    IN IF parsedURL.err /= "nil" THEN Failed(c, "invalid proxy URL")
       ELSE Done([c EXCEPT !.hc.Transport =
                    << [transport EXCEPT !.Proxy = ProxyURL(parsedURL)] >>])
\* the empty string parsed and installed like any other URL
WithProxyURL_EmptyParsed(proxyURL, c) == ProxyFrom(ParseURL(proxyURL), c)
WithProxyURL(proxyURL, c) ==
    IF proxyURL = <<>> THEN Done(c) ELSE ProxyFrom(ParseURL(proxyURL), c)

WithTimeout(timeout, c) == Done([c EXCEPT !.hc.Timeout = timeout])

WithBaseLabel(key, value, c) == Done([c EXCEPT !.am.labels = MapSet(c.am.labels, key, value)])

WithBaseAnnotation(key, value, c) ==
    Done([c EXCEPT !.am.annotations = MapSet(c.am.annotations, key, value)])

(***************************************************************************)
(* State                                                                   *)
(***************************************************************************)
VARIABLES
    am,          \* the Alertmanager struct
    hc,          \* the http.Client the Alertmanager points to
    lastOpt,     \* the option applied last: its name, its URL argument, its error
    applied,     \* the names of the options applied so far, in order
    lastSet,     \* per transport field, the value the last option targeting it gave
    args,        \* the alerts of the last Emit call
    ret,         \* what the last Emit call returned
    got,         \* what client.Do returned to the last Emit call
    lastRequest, \* the request the last Emit call handed to client.Do
    posts,       \* the number of requests handed to client.Do so far
    calls,       \* the number of Emit calls so far
    built,       \* the last constructor call: its input, what it returned, what it did
    orders,      \* two options applied to one client in both orders, and both results
    subject,     \* the Alert that NewAlert and the alert options work on
    written,     \* how the Alert came to be and what was applied to it so far, in order
    emitters,    \* the Emit calls in flight, one goroutine each: position and locals
    shared       \* http.Client objects by address, and the clients constructed on them

vars ==
    <<am, hc, lastOpt, applied, lastSet, args, ret, got, lastRequest, posts, calls,
      built, orders, subject, written, emitters, shared>>
clientVars == <<am, hc, lastOpt, applied, lastSet>>
emitVars == <<args, ret, got, lastRequest, posts, calls>>
buildVars == <<built, orders, subject, written, emitters, shared>>

Client == [am |-> am, hc |-> hc]

NothingSet ==
    [rootCAs |-> <<>>, insecure |-> <<>>, minVersion |-> <<>>, maxVersion |-> <<>>,
     proxy |-> <<>>, timeout |-> <<>>]
NoOption == [name |-> "", raw |-> <<>>, err |-> "nil"]
NoReturn == [resp |-> <<>>, err |-> "nil"]

\* NewAlertmanager(logger, &http.Client{}) with no option, and no Emit call yet
InitClient ==
    /\ am = ZeroAlertmanager
    /\ hc = ZeroHTTPClient
    /\ lastOpt = NoOption
    /\ applied = <<>>
    /\ lastSet = NothingSet
InitEmit ==
    /\ args = <<>>
    /\ ret = NoReturn
    /\ got = NoReturn
    /\ lastRequest = <<>>
    /\ posts = 0
    /\ calls = 0
\* no constructor called, no pair of options tried, no alert built
NotBuilt ==
    [fn |-> "", input |-> <<>>, out |-> [am |-> <<>>, err |-> "nil"], trace |-> <<>>,
     reads |-> 0]
NothingWritten == [version |-> "", origin |-> "", start |-> <<>>, ops |-> <<>>, panicked |-> FALSE]
NothingShared == [heap |-> <<>>, made |-> {}, last |-> <<>>]
NoOrders == [start |-> <<>>, first |-> <<>>, second |-> <<>>, ab |-> <<>>, ba |-> <<>>]
InitBuild ==
    /\ built = NotBuilt
    /\ orders = NoOrders
    /\ subject = <<>>
    /\ written = NothingWritten
    /\ emitters = <<>>
    /\ shared = NothingShared

(***************************************************************************)
(* SpecEndpoint: WithEndpoint applied, any number of times, to one client. *)
(***************************************************************************)
s_http == <<"h", "t", "t", "p", ":">>
s_https == <<"h", "t", "t", "p", "s", ":">>
s_Http == <<"H", "t", "t", "p", ":">>
s_host == <<"/", "/", "h", "o", "s", "t">>
s_hostport == <<"/", "/", "h", "o", "s", "t", ":", "9", "0", "9", "3">>
s_badport == <<"/", "/", "h", "o", "s", "t", ":", "x">>
s_path == <<"/", "s", "o", "m", "e", "/", "p", "a", "t", "h">>
s_noscheme == <<"a", "l", "e", "r", "t", "m", "a", "n", "a", "g", "e", "r", ":", "9", "0", "9", "3">>
s_notvalid == <<"_", "n", "o", "t", "_", "v", "a", "l", "i", "d", "_">>

SchemeParts == {<<>>, s_http, <<":">>}
AuthorityParts == {<<>>, s_host, s_hostport, s_badport}
PathParts == {<<>>, s_path}
QueryParts == {<<>>, <<"?">>, <<"?", "q">>}
FragmentParts == {<<>>, <<"#", "f">>}

\* the endpoint strings handed to WithEndpoint: every concatenation of the
\* parts, and the strings of the tests that have no such shape
EndpointInputs ==
    {s \o a \o p \o q \o f :
        s \in SchemeParts, a \in AuthorityParts, p \in PathParts, q \in QueryParts,
        f \in FragmentParts}
    \cup {s_noscheme, s_notvalid, s_http \o <<"/", "/">>, s_https \o s_hostport,
          s_Http \o s_host \o s_path}

ApplyWithEndpoint(endpoint) ==
    LET r == WithEndpoint(endpoint, Client)
    IN /\ am' = r.am
       /\ hc' = r.hc
       /\ lastOpt' = [name |-> "WithEndpoint", raw |-> endpoint, err |-> r.err]
       /\ UNCHANGED <<applied, lastSet>>
       /\ UNCHANGED emitVars
       /\ UNCHANGED buildVars

InitEndpoint == InitClient /\ InitEmit /\ InitBuild
NextEndpoint == \E endpoint \in EndpointInputs : ApplyWithEndpoint(endpoint)
SpecEndpoint == InitEndpoint /\ [][NextEndpoint]_vars

\* C6: WithEndpoint on scheme://host[:port][/path][?query][#fragment] stores
\* the URL without its path (the scheme in lower case) followed by
\* /api/v2/alerts; http://host:9093/some/path and http://host:9093 both give
\* http://host:9093/api/v2/alerts.
C6_EndpointStripsPath ==
    lastOpt.name = "WithEndpoint" =>
        /\ \A s \in {s_http, s_https, s_Http}, a \in {s_host, s_hostport}, p \in PathParts,
              q \in QueryParts, f \in FragmentParts :
                lastOpt.raw = s \o a \o p \o q \o f =>
                    /\ lastOpt.err = "nil"
                    /\ am.endpoint = ToLower(s) \o a \o q \o f \o AlertsPath
        /\ lastOpt.raw \in {s_http \o s_hostport \o s_path, s_http \o s_hostport} =>
                am.endpoint = s_http \o s_hostport \o AlertsPath
C6_Witness ==
    /\ lastOpt.raw = s_http \o s_hostport \o s_path
    /\ lastOpt.err = "nil"
    /\ am.endpoint = s_http \o s_hostport \o AlertsPath

\* C7: WithEndpoint fails with ErrEndpointRequired on the empty string and with
\* ErrInvalidEndpoint when the URL parses with an empty scheme or an empty host
\* (alertmanager:9093, http://, _not_valid_); it succeeds exactly on the
\* inputs that have both a scheme and a host.
C7_EndpointErrors ==
    lastOpt.name = "WithEndpoint" =>
        /\ lastOpt.raw = <<>> <=> lastOpt.err = "ErrEndpointRequired"
        /\ (/\ lastOpt.raw /= <<>>
            /\ ParseURL(lastOpt.raw).err = "nil"
            /\ ParseURL(lastOpt.raw).Scheme = <<>> \/ ParseURL(lastOpt.raw).Host = <<>>)
                => lastOpt.err = "ErrInvalidEndpoint"
        /\ lastOpt.raw \in {s_noscheme, s_notvalid, s_http \o <<"/", "/">>}
                => lastOpt.err = "ErrInvalidEndpoint"
        /\ lastOpt.err = "nil" <=>
                \E s \in {s_http, s_https, s_Http}, a \in {s_host, s_hostport}, p \in PathParts,
                   q \in QueryParts, f \in FragmentParts : lastOpt.raw = s \o a \o p \o q \o f
C7_Witness ==
    /\ lastOpt.raw = s_http \o <<"/", "/">>
    /\ lastOpt.err = "ErrInvalidEndpoint"
    /\ am.endpoint /= <<>>

(***************************************************************************)
(* SpecTransport: the transport options applied in any order, up to        *)
(* MaxOptions of them, to a client whose http.Client has no transport.     *)
(***************************************************************************)
MaxOptions == 3

SystemPools == {[ok |-> TRUE, certs |-> {"system"}], [ok |-> FALSE, certs |-> {}]}
CACertInputs == {<<>>, <<"garbage">>, <<"certA">>}
TLSVersions == {TLS10, TLS12, TLS13}
Timeouts == {0, 2, 30}
s_proxy1 == <<"h", "t", "t", "p", ":", "/", "/", "p", "x", ":", "8">>
s_proxy2 == <<"h", "t", "t", "p", ":", "/", "/", "p", "y">>
ProxyInputs == {<<>>, s_proxy1, s_proxy2, <<":", "x">>}

\* the option r was applied under the name given; a failed option is not
\* recorded among the applied ones
Applied(name, raw, r) ==
    /\ am' = r.am
    /\ hc' = r.hc
    /\ lastOpt' = [name |-> name, raw |-> raw, err |-> r.err]
    /\ applied' = IF r.err = "nil" THEN Append(applied, name) ELSE applied
    /\ UNCHANGED emitVars
    /\ UNCHANGED buildVars

ApplyWithCustomCA(caCert, sys) ==
    /\ Len(applied) < MaxOptions
    /\ Applied("WithCustomCA", <<>>, WithCustomCA(caCert, sys, Client))
    /\ lastSet' = [lastSet EXCEPT !.rootCAs =
                        << (IF sys.ok THEN sys.certs ELSE {}) \cup PEMCerts(caCert) >>]

ApplyWithInsecure(insecureSkipVerify) ==
    /\ Len(applied) < MaxOptions
    /\ Applied("WithInsecure", <<>>, WithInsecure(insecureSkipVerify, Client))
    /\ lastSet' = [lastSet EXCEPT !.insecure = <<insecureSkipVerify>>]

ApplyWithMinTLSVersion(minVersion) ==
    /\ Len(applied) < MaxOptions
    /\ Applied("WithMinTLSVersion", <<>>, WithMinTLSVersion(minVersion, Client))
    /\ lastSet' = [lastSet EXCEPT !.minVersion = <<minVersion>>]

ApplyWithMaxTLSVersion(maxVersion) ==
    /\ Len(applied) < MaxOptions
    /\ Applied("WithMaxTLSVersion", <<>>, WithMaxTLSVersion(maxVersion, Client))
    /\ lastSet' = [lastSet EXCEPT !.maxVersion = <<maxVersion>>]

ApplyWithProxyURL(proxyURL) ==
    /\ Len(applied) < MaxOptions
    /\ Applied("WithProxyURL", proxyURL, WithProxyURL(proxyURL, Client))
    /\ lastSet' = IF proxyURL /= <<>> /\ ParseURL(proxyURL).err = "nil"
                  THEN [lastSet EXCEPT !.proxy = <<ParseURL(proxyURL)>>]
                  ELSE lastSet

ApplyWithTimeout(timeout) ==
    /\ Len(applied) < MaxOptions
    /\ Applied("WithTimeout", <<>>, WithTimeout(timeout, Client))
    /\ lastSet' = [lastSet EXCEPT !.timeout = <<timeout>>]

InitTransport == InitClient /\ InitEmit /\ InitBuild
NextTransport ==
    \/ \E caCert \in CACertInputs, sys \in SystemPools : ApplyWithCustomCA(caCert, sys)
    \/ \E b \in BOOLEAN : ApplyWithInsecure(b)
    \/ \E v \in TLSVersions : ApplyWithMinTLSVersion(v)
    \/ \E v \in TLSVersions : ApplyWithMaxTLSVersion(v)
    \/ \E proxyURL \in ProxyInputs : ApplyWithProxyURL(proxyURL)
    \/ \E timeout \in Timeouts : ApplyWithTimeout(timeout)
SpecTransport == InitTransport /\ [][NextTransport]_vars

\* the TLS configuration of the client's transport, nil when there is none
TLSConfigOf(client) ==
    IF client.Transport = <<>> THEN <<>> ELSE client.Transport[1].TLSClientConfig

\* C2: after any sequence of successful transport options applied to a client
\* without a transport, every field that some option set holds the value the
\* last option targeting that field gave it.
C2_TransportFieldsKept ==
    /\ lastSet.rootCAs /= <<>> =>
            TLSConfigOf(hc) /= <<>> /\ TLSConfigOf(hc)[1].RootCAs = lastSet.rootCAs
    /\ lastSet.insecure /= <<>> =>
            TLSConfigOf(hc) /= <<>>
                /\ TLSConfigOf(hc)[1].InsecureSkipVerify = lastSet.insecure[1]
    /\ lastSet.minVersion /= <<>> =>
            TLSConfigOf(hc) /= <<>> /\ TLSConfigOf(hc)[1].MinVersion = lastSet.minVersion[1]
    /\ lastSet.maxVersion /= <<>> =>
            TLSConfigOf(hc) /= <<>> /\ TLSConfigOf(hc)[1].MaxVersion = lastSet.maxVersion[1]
    /\ lastSet.proxy /= <<>> =>
            hc.Transport /= <<>> /\ hc.Transport[1].Proxy = ProxyURL(lastSet.proxy[1])
    /\ lastSet.timeout /= <<>> => hc.Timeout = lastSet.timeout[1]
\* WithCustomCA, then WithProxyURL, then WithMinTLSVersion: all three present
C2_Witness ==
    /\ applied = <<"WithCustomCA", "WithProxyURL", "WithMinTLSVersion">>
    /\ TLSConfigOf(hc)[1].RootCAs = << {"system", "certA"} >>
    /\ hc.Transport[1].Proxy = ProxyURL(ParseURL(s_proxy1))
    /\ TLSConfigOf(hc)[1].MinVersion = TLS13

(***************************************************************************)
(* Alerts and what Emit makes of them.  A time.Time is its year: json       *)
(* encodes a time as an RFC 3339 string, which exists for the years 0 to    *)
(* 9999 only (Time.MarshalJSON fails outside that range).                   *)
(***************************************************************************)
\* Alert{Labels, Annotations, StartsAt, EndsAt}
Alert(labels, annotations, startsAt, endsAt) ==
    [Labels |-> labels, Annotations |-> annotations, StartsAt |-> startsAt,
     EndsAt |-> endsAt]

\* a merge in which the base maps are copied last
MergeAlert_BaseLast(a, alert) ==
    [Labels |-> MapsCopy(MapsCopy(EmptyMap, alert.Labels), a.labels),
     Annotations |-> MapsCopy(MapsCopy(EmptyMap, alert.Annotations), a.annotations),
     StartsAt |-> alert.StartsAt,
     EndsAt |-> alert.EndsAt]
\* a merge that gives an alert without a start the year 2025 as its start
MergeAlert_StartDefaulted(a, alert) ==
    [Labels |-> MapsCopy(MapsCopy(EmptyMap, a.labels), alert.Labels),
     Annotations |-> MapsCopy(MapsCopy(EmptyMap, a.annotations), alert.Annotations),
     StartsAt |-> IF alert.StartsAt = <<>> THEN <<2025>> ELSE alert.StartsAt,
     EndsAt |-> alert.EndsAt]
\* the merge of Emit: the base maps first, the alert's own on top
MergeAlert(a, alert) ==
    [Labels |-> MapsCopy(MapsCopy(EmptyMap, a.labels), alert.Labels),
     Annotations |-> MapsCopy(MapsCopy(EmptyMap, a.annotations), alert.Annotations),
     StartsAt |-> alert.StartsAt,
     EndsAt |-> alert.EndsAt]

\* a loop that sends an alert of the base maps alone for a nil entry
FinalAlerts_NilKept(a, alerts) ==
    [i \in 1..Len(alerts) |->
        MergeAlert(a, IF alerts[i] = <<>> THEN Alert(NilMap, NilMap, <<>>, <<>>)
                      ELSE alerts[i][1])]
\* the loop of Emit over its arguments: nil entries are skipped
RECURSIVE FinalAlerts(_, _)
FinalAlerts(a, alerts) ==
    IF alerts = <<>> THEN <<>>
    ELSE (IF Head(alerts) = <<>> THEN <<>> ELSE << MergeAlert(a, Head(alerts)[1]) >>)
            \o FinalAlerts(a, Tail(alerts))

\* Time.MarshalJSON
TimeMarshals(t) == t = <<>> \/ (t[1] >= 0 /\ t[1] <= 9999)
\* the JSON object of one Alert: startsAt and endsAt are omitempty
AlertJSON(alert) ==
    [k \in {"annotations", "labels"}
            \cup (IF alert.StartsAt /= <<>> THEN {"startsAt"} ELSE {})
            \cup (IF alert.EndsAt /= <<>> THEN {"endsAt"} ELSE {}) |->
        CASE k = "annotations" -> alert.Annotations
          [] k = "labels" -> alert.Labels
          [] k = "startsAt" -> <<"RFC3339", alert.StartsAt[1]>>
          [] k = "endsAt" -> <<"RFC3339", alert.EndsAt[1]>>]
\* json.Marshal(finalAlerts): a JSON array, or an error
MarshalAlerts(final) ==
    IF \A i \in 1..Len(final) : TimeMarshals(final[i].StartsAt) /\ TimeMarshals(final[i].EndsAt)
    THEN [err |-> "nil",
          json |-> [kind |-> "array", elems |-> [i \in 1..Len(final) |-> AlertJSON(final[i])]]]
    ELSE [err |-> "json: error calling MarshalJSON", json |-> [kind |-> "null", elems |-> <<>>]]

\* http.NewRequest(http.MethodPost, endpoint, body) once url.Parse(endpoint)
\* has given u: the request holds the parsed URL
RequestTo(u, json) ==
    [err |-> u.err,
     req |-> [Method |-> "POST", URL |-> u, Header |-> EmptyMap, Body |-> json]]
NewRequest(endpoint, json) == RequestTo(ParseURL(endpoint), json)
\* req.Header.Add(name, value)
HeaderAdd(req, name, value) ==
    [req EXCEPT !.Header =
        [k \in DOMAIN req.Header \cup {name} |->
            IF k \in DOMAIN req.Header /\ k = name THEN Append(req.Header[k], value)
            ELSE IF k = name THEN <<value>> ELSE req.Header[k]]]

\* client.Do(req): answer is what the network gives, a transport failure or a
\* response with a status; a URL that is not http(s)://host fails in the
\* client itself
TransportFailure == [resp |-> <<>>, err |-> "transport error"]
Response(status) == [resp |-> << [StatusCode |-> status] >>, err |-> "nil"]
RoundTrip(u, answer) ==
    IF u.Scheme \in {<<"h", "t", "t", "p">>, <<"h", "t", "t", "p", "s">>} /\ u.Host /= <<>>
    THEN answer ELSE TransportFailure
ClientDo(req, answer) == RoundTrip(req.URL, answer)

\* what an Emit call did: its return values, the requests it handed to
\* client.Do and what client.Do gave back
Returned(resp, err) ==
    [ret |-> [resp |-> resp, err |-> err], requests |-> <<>>, got |-> NoReturn]
\* a second request after a failed one
Posted_Retried(resp, err, req, done) ==
    [ret |-> [resp |-> resp, err |-> err],
     requests |-> IF err = "nil" THEN <<req>> ELSE <<req, req>>, got |-> done]
Posted(resp, err, req, done) ==
    [ret |-> [resp |-> resp, err |-> err], requests |-> <<req>>, got |-> done]

\* the response-returning Emit,
\*   func (a *Alertmanager) Emit(alerts ...*Alert) (*http.Response, error),
\* in its steps, last step first.
\* a result that gives the response back for status 200 only
EmitReturn_OnlyOK(req, done) ==
    IF done.err /= "nil" THEN Posted(<<>>, "failed to post alert", req, done)
    ELSE IF done.resp[1].StatusCode /= 200 THEN Posted(<<>>, "ErrEmissionFailed", req, done)
    ELSE Posted(done.resp, "nil", req, done)
\* resp, err := a.client.Do(req) has given done
EmitReturn(req, done) ==
    IF done.err /= "nil" THEN Posted(<<>>, "failed to post alert", req, done)
    ELSE Posted(done.resp, "nil", req, done)
\* the headers: Content-Type always, Authorization when a.authHeader is set
EmitHeaders(a, req) ==
    IF a.authHeader /= <<>>
    THEN HeaderAdd(HeaderAdd(req, "Content-Type", "application/json"),
                   "Authorization", a.authHeader)
    ELSE HeaderAdd(req, "Content-Type", "application/json")
EmitDo(req, answer) == EmitReturn(req, ClientDo(req, answer))
\* http.NewRequest has given new
EmitRequest(a, new, answer) ==
    IF new.err /= "nil" THEN Returned(<<>>, "failed to create HTTP request")
    ELSE EmitDo(EmitHeaders(a, new.req), answer)
\* json.Marshal(finalAlerts) has given body
EmitBody(a, body, answer) ==
    IF body.err /= "nil" THEN Returned(<<>>, "failed to marshal alerts")
    ELSE EmitRequest(a, NewRequest(a.endpoint, body.json), answer)
\* an Emit without the check of the endpoint
EmitResponse_Unchecked(a, alerts, answer) ==
    EmitBody(a, MarshalAlerts(FinalAlerts(a, alerts)), answer)
EmitResponse(a, alerts, answer) ==
    IF a.endpoint = <<>> THEN Returned(<<>>, "ErrEndpointRequired")
    ELSE EmitBody(a, MarshalAlerts(FinalAlerts(a, alerts)), answer)

(***************************************************************************)
(* base64.StdEncoding.EncodeToString and the value of basicAuthHeader.     *)
(***************************************************************************)
Lower ==
    <<"a", "b", "c", "d", "e", "f", "g", "h", "i", "j", "k", "l", "m", "n", "o", "p", "q",
      "r", "s", "t", "u", "v", "w", "x", "y", "z">>
Upper ==
    <<"A", "B", "C", "D", "E", "F", "G", "H", "I", "J", "K", "L", "M", "N", "O", "P", "Q",
      "R", "S", "T", "U", "V", "W", "X", "Y", "Z">>
Numerals == <<"0", "1", "2", "3", "4", "5", "6", "7", "8", "9">>
Base64Alphabet == Upper \o Lower \o Numerals \o <<"+", "/">>
\* the byte of a character of the credentials
ByteOf(c) ==
    IF c = ":" THEN 58
    ELSE IF \E i \in 1..Len(Lower) : Lower[i] = c
         THEN 96 + (CHOOSE i \in 1..Len(Lower) : Lower[i] = c)
    ELSE IF \E i \in 1..Len(Upper) : Upper[i] = c
         THEN 64 + (CHOOSE i \in 1..Len(Upper) : Upper[i] = c)
    ELSE 47 + (CHOOSE i \in 1..Len(Numerals) : Numerals[i] = c)
\* the k-th 6-bit digit, from the right, of the 24-bit group n
Sextet(n, k) == Base64Alphabet[((n \div (64 ^ k)) % 64) + 1]
RECURSIVE Base64(_)
Base64(b) ==
    IF Len(b) = 0 THEN <<>>
    ELSE IF Len(b) = 1
         THEN << Sextet(ByteOf(b[1]) * 65536, 3), Sextet(ByteOf(b[1]) * 65536, 2), "=", "=" >>
    ELSE IF Len(b) = 2
         THEN << Sextet(ByteOf(b[1]) * 65536 + ByteOf(b[2]) * 256, 3),
                 Sextet(ByteOf(b[1]) * 65536 + ByteOf(b[2]) * 256, 2),
                 Sextet(ByteOf(b[1]) * 65536 + ByteOf(b[2]) * 256, 1), "=" >>
    ELSE << Sextet(ByteOf(b[1]) * 65536 + ByteOf(b[2]) * 256 + ByteOf(b[3]), 3),
            Sextet(ByteOf(b[1]) * 65536 + ByteOf(b[2]) * 256 + ByteOf(b[3]), 2),
            Sextet(ByteOf(b[1]) * 65536 + ByteOf(b[2]) * 256 + ByteOf(b[3]), 1),
            Sextet(ByteOf(b[1]) * 65536 + ByteOf(b[2]) * 256 + ByteOf(b[3]), 0) >>
            \o Base64(SubSeq(b, 4, Len(b)))
\* fmt.Sprintf("Basic %s", base64(username ":" password))
BasicAuthValue(username, password) ==
    <<"B", "a", "s", "i", "c", " ">> \o Base64(username \o <<":">> \o password)

(***************************************************************************)
(* The error-returning Emit,                                               *)
(*   func (a *Alertmanager) Emit(alerts ...*Alert) error,                  *)
(* whose Alert has labels and annotations only.                            *)
(***************************************************************************)
\* mergedAlert := Alert{Labels: base then alert, Annotations: base then alert}
MergeMaps(a, alert) ==
    Alert(MapsCopy(MapsCopy(EmptyMap, a.labels), alert.Labels),
          MapsCopy(MapsCopy(EmptyMap, a.annotations), alert.Annotations), <<>>, <<>>)
RECURSIVE FinalAlertsOf(_, _)
FinalAlertsOf(a, alerts) ==
    IF alerts = <<>> THEN <<>>
    ELSE (IF Head(alerts) = <<>> THEN <<>> ELSE << MergeMaps(a, Head(alerts)[1]) >>)
            \o FinalAlertsOf(a, Tail(alerts))
\* a check of the status that lets every 2xx pass
EmitErrorReturn_Any2xx(req, done) ==
    IF done.err /= "nil" THEN Posted(<<>>, done.err, req, done)
    ELSE IF done.resp[1].StatusCode < 200 \/ done.resp[1].StatusCode > 299
         THEN Posted(<<>>, "ErrEmissionFailed", req, done)
    ELSE Posted(<<>>, "nil", req, done)
\* resp, err := a.client.hclient.Do(req) has given done
EmitErrorReturn(req, done) ==
    IF done.err /= "nil" THEN Posted(<<>>, done.err, req, done)
    ELSE IF done.resp[1].StatusCode /= 200 THEN Posted(<<>>, "ErrEmissionFailed", req, done)
    ELSE Posted(<<>>, "nil", req, done)
\* headers with Authorization as soon as one of the credentials is set
EmitErrorHeaders_Either(a, req) ==
    IF a.username /= <<>> \/ a.password /= <<>>
    THEN HeaderAdd(HeaderAdd(req, "Content-Type", "application/json"),
                   "Authorization", BasicAuthValue(a.username, a.password))
    ELSE HeaderAdd(req, "Content-Type", "application/json")
\* the headers: Content-Type always, Authorization when both credentials are set
EmitErrorHeaders(a, req) ==
    IF a.username /= <<>> /\ a.password /= <<>>
    THEN HeaderAdd(HeaderAdd(req, "Content-Type", "application/json"),
                   "Authorization", BasicAuthValue(a.username, a.password))
    ELSE HeaderAdd(req, "Content-Type", "application/json")
EmitErrorDo(req, answer) == EmitErrorReturn(req, ClientDo(req, answer))
EmitErrorRequest(a, new, answer) ==
    IF new.err /= "nil" THEN Returned(<<>>, new.err)
    ELSE EmitErrorDo(EmitErrorHeaders(a, new.req), answer)
EmitErrorBody(a, body, answer) ==
    IF body.err /= "nil" THEN Returned(<<>>, body.err)
    ELSE EmitErrorRequest(a, NewRequest(a.endpoint, body.json), answer)
EmitError(a, alerts, answer) ==
    IF Len(alerts) = 0 THEN Returned(<<>>, "nil")
    ELSE EmitErrorBody(a, MarshalAlerts(FinalAlertsOf(a, alerts)), answer)

(***************************************************************************)
(* SpecEmit: the response-returning Emit called, up to MaxCalls times with  *)
(* up to MaxAlerts alerts each, on a client built by NewAlertmanager.       *)
(***************************************************************************)
MaxCalls == 2
MaxAlerts == 2

Map1(k, v) == [x \in {k} |-> v]
Map2(k1, v1, k2, v2) == [x \in {k1, k2} |-> IF x = k1 THEN v1 ELSE v2]

s_bob == <<"b", "o", "b">>
s_frogs == <<"f", "r", "o", "g", "s">>

\* the base labels and annotations of the clients: what WithBaseLabel and
\* WithBaseAnnotation options leave
BaseMaps ==
    {<<EmptyMap, EmptyMap>>,
     <<Map2("alertname", "warning", "severity", "warning"), Map2("summary", "b", "team", "x")>>}
EmitEndpoints ==
    {<<>>,
     WithEndpoint(s_http \o s_hostport \o s_path,
                  [am |-> ZeroAlertmanager, hc |-> ZeroHTTPClient]).am.endpoint}

\* the alerts handed to Emit: a nil pointer, or a pointer to one of these
AlertPool ==
    {Alert(Map2("alertname", "critical", "instance", "n1"), Map1("summary", "a"),
           <<2025>>, <<2024>>),
     Alert(Map1("severity", "critical"), NilMap, <<>>, <<>>),
     Alert(Map1("alertname", "late"), EmptyMap, <<10000>>, <<>>)}
AlertPointers == {<<>>} \cup {<<alert>> : alert \in AlertPool}
AlertLists == UNION {[1..n -> AlertPointers] : n \in 0..MaxAlerts}

\* what client.Do gives: a transport failure, a response, or (when the
\* redirect policy fails) the last response together with an error
Statuses == {200, 204, 500}
RedirectFailure == [resp |-> << [StatusCode |-> 302] >>, err |-> "stopped after 10 redirects"]
Answers == {TransportFailure, RedirectFailure} \cup {Response(status) : status \in Statuses}

InitEmitClient ==
    /\ \E endpoint \in EmitEndpoints, base \in BaseMaps :
            am = [ZeroAlertmanager EXCEPT !.endpoint = endpoint,
                                          !.labels = base[1], !.annotations = base[2]]
    /\ hc = ZeroHTTPClient
    /\ lastOpt = NoOption
    /\ applied = <<>>
    /\ lastSet = NothingSet

\* one Emit call, with the outcome r
Emitted(alerts, r) ==
    /\ calls < MaxCalls
    /\ calls' = calls + 1
    /\ args' = alerts
    /\ ret' = r.ret
    /\ got' = r.got
    /\ lastRequest' = r.requests
    /\ posts' = posts + Len(r.requests)
    /\ UNCHANGED clientVars
    /\ UNCHANGED buildVars

Emit(alerts, answer) == Emitted(alerts, EmitResponse(am, alerts, answer))

SpecEmitInit == InitEmitClient /\ InitEmit /\ InitBuild
NextEmit == \E alerts \in AlertLists, answer \in Answers : Emit(alerts, answer)
SpecEmit == SpecEmitInit /\ [][NextEmit]_vars

\* the non-nil entries of the arguments, in their order
NonNil(alerts) == SelectSeq(alerts, LAMBDA p : p /= <<>>)
\* every non-nil entry has timestamps that json can encode
Serializes(alerts) ==
    \A i \in 1..Len(alerts) :
        alerts[i] /= <<>> =>
            TimeMarshals(alerts[i][1].StartsAt) /\ TimeMarshals(alerts[i][1].EndsAt)
\* m is base overlaid with own: the keys of both, own's value where own has the key
Overlaid(m, base, own) ==
    /\ DOMAIN m = DOMAIN base \cup DOMAIN own
    /\ \A k \in DOMAIN own : m[k] = own[k]
    /\ \A k \in DOMAIN base \ DOMAIN own : m[k] = base[k]

\* C1: in every request Emit sent, the labels of the element for the i-th
\* non-nil alert are the client's base labels overlaid with the alert's own
\* labels (the keys of both; the alert's value on a collision, the base's
\* value for a key of the base alone), and likewise for the annotations.
C1_MergeAlertOverBase ==
    lastRequest /= <<>> =>
        /\ Len(lastRequest[1].Body.elems) = Len(NonNil(args))
        /\ \A i \in 1..Len(NonNil(args)) :
            /\ Overlaid(lastRequest[1].Body.elems[i]["labels"], am.labels,
                        Entries(NonNil(args)[i][1].Labels))
            /\ Overlaid(lastRequest[1].Body.elems[i]["annotations"], am.annotations,
                        Entries(NonNil(args)[i][1].Annotations))
\* a sent alert with a colliding label and annotation, a key of its own and
\* keys of the base alone
C1_Witness ==
    /\ lastRequest /= <<>>
    /\ am.labels = Map2("alertname", "warning", "severity", "warning")
    /\ args = << <<Alert(Map2("alertname", "critical", "instance", "n1"), Map1("summary", "a"),
                         <<2025>>, <<2024>>)>> >>
    /\ lastRequest[1].Body.elems[1]["labels"]["alertname"] = "critical"
    /\ lastRequest[1].Body.elems[1]["labels"]["severity"] = "warning"
    /\ lastRequest[1].Body.elems[1]["annotations"]["summary"] = "a"
    /\ lastRequest[1].Body.elems[1]["annotations"]["team"] = "x"

\* C3: an Emit call on a client whose endpoint is empty returns
\* ErrEndpointRequired with no response and hands no request to the HTTP
\* client, whatever the list of alerts.
C3_NoEndpointNoRequest ==
    calls > 0 /\ am.endpoint = <<>> =>
        /\ ret = [resp |-> <<>>, err |-> "ErrEndpointRequired"]
        /\ lastRequest = <<>>
        /\ posts = 0
\* a second call without endpoint, with a nil and a non-nil alert
C3_Witness ==
    /\ calls = 2 /\ am.endpoint = <<>>
    /\ Len(args) = 2 /\ args[1] = <<>> /\ args[2] /= <<>>
    /\ ret.err = "ErrEndpointRequired" /\ posts = 0

\* C4 (as the code has it): an Emit call hands at most one request to the
\* HTTP client; on a client with an endpoint it hands exactly one when the
\* alerts serialize (also for an empty or all-nil list, and whatever the
\* answer: no retry) and none when json.Marshal fails on a timestamp.
C4_OnePostWhenSerialized ==
    [][calls' = calls + 1 =>
        /\ posts' <= posts + 1
        /\ Len(lastRequest') = posts' - posts
        /\ am.endpoint /= <<>> =>
                posts' = posts + (IF Serializes(args') THEN 1 ELSE 0)]_vars
\* C4 as stated: with an endpoint, n calls have sent exactly n requests
C4_OnePostPerCall == am.endpoint /= <<>> => posts = calls
\* a call whose alert does not serialize (no request), then a call with an
\* all-nil list (one request)
C4_Witness ==
    /\ am.endpoint /= <<>>
    /\ calls = 2 /\ posts = 1
    /\ args = << <<>> >>
    /\ Len(lastRequest) = 1
    /\ lastRequest[1].Body = [kind |-> "array", elems |-> <<>>]

\* C5: the payload of a request Emit sent is one array whose elements are,
\* in input order, the merged non-nil alerts, nil entries being skipped;
\* nil entries cause no error: on a client with an endpoint Emit fails only
\* when a non-nil alert does not serialize or client.Do fails.
C5_NilEntriesSkipped ==
    /\ lastRequest /= <<>> =>
        /\ lastRequest[1].Body.kind = "array"
        /\ Len(lastRequest[1].Body.elems) = Len(NonNil(args))
        /\ \A i \in 1..Len(NonNil(args)) :
                lastRequest[1].Body.elems[i] = AlertJSON(MergeAlert(am, NonNil(args)[i][1]))
    /\ calls > 0 /\ am.endpoint /= <<>> =>
        /\ lastRequest = <<>> <=> ~Serializes(args)
        /\ ret.err /= "nil" => ~Serializes(args) \/ got.err /= "nil"
\* a nil entry before an alert: an array of one element, and no error
C5_Witness ==
    /\ Len(args) = 2 /\ args[1] = <<>> /\ args[2] /= <<>>
    /\ lastRequest /= <<>>
    /\ Len(lastRequest[1].Body.elems) = 1
    /\ lastRequest[1].Body.elems[1]["labels"]["severity"] = "critical"
    /\ ret.err = "nil"

\* C8: the response-returning Emit returns exactly one of a response and an
\* error: the response client.Do gave, whatever its status, with no error
\* when client.Do gave no error; no response and an error when the endpoint
\* is missing, the alerts do not serialize or client.Do failed.
C8_ResponseOrError ==
    calls > 0 =>
        /\ (ret.resp = <<>>) /= (ret.err = "nil")
        /\ lastRequest /= <<>> /\ got.err = "nil" => ret = [resp |-> got.resp, err |-> "nil"]
        /\ am.endpoint = <<>> \/ ~Serializes(args) \/ got.err /= "nil" =>
                ret.resp = <<>> /\ ret.err /= "nil"
\* the server answered 500: Emit returns that response and no error
C8_Witness ==
    /\ calls > 0
    /\ got = Response(500)
    /\ ret = [resp |-> << [StatusCode |-> 500] >>, err |-> "nil"]

\* the JSON member k of an element is the timestamp t: absent when t is
\* nil, the RFC 3339 text of t otherwise
Forwarded(elem, k, t) ==
    IF t = <<>> THEN k \notin DOMAIN elem
    ELSE k \in DOMAIN elem /\ elem[k] = <<"RFC3339", t[1]>>

\* C11: in every request Emit sent, the element for the i-th non-nil alert
\* has the startsAt and the endsAt of that alert: the same time when the
\* alert has one, no member when it has none, whatever the order of the two.
C11_TimestampsForwarded ==
    lastRequest /= <<>> =>
        /\ Len(lastRequest[1].Body.elems) = Len(NonNil(args))
        /\ \A i \in 1..Len(NonNil(args)) :
            /\ Forwarded(lastRequest[1].Body.elems[i], "startsAt", NonNil(args)[i][1].StartsAt)
            /\ Forwarded(lastRequest[1].Body.elems[i], "endsAt", NonNil(args)[i][1].EndsAt)
\* sent together: an alert that ends (2024) before it starts (2025), and an
\* alert without timestamps
C11_Witness ==
    /\ Len(lastRequest) = 1 /\ Len(args) = 2
    /\ args[1] /= <<>> /\ args[1][1].StartsAt = <<2025>> /\ args[1][1].EndsAt = <<2024>>
    /\ args[2] /= <<>> /\ args[2][1].StartsAt = <<>> /\ args[2][1].EndsAt = <<>>
    /\ lastRequest[1].Body.elems[1]["startsAt"] = <<"RFC3339", 2025>>
    /\ lastRequest[1].Body.elems[1]["endsAt"] = <<"RFC3339", 2024>>
    /\ DOMAIN lastRequest[1].Body.elems[2] = {"annotations", "labels"}

(***************************************************************************)
(* SpecEmitErr: a client given its credentials by WithBasicAuth, then the   *)
(* error-returning Emit called on it.                                      *)
(***************************************************************************)
Usernames == {<<>>, s_bob}
Passwords == {<<>>, s_frogs}
PlainAlerts ==
    {Alert(Map2("alertname", "critical", "instance", "n1"), Map1("summary", "a"), <<>>, <<>>)}
PlainPointers == {<<>>} \cup {<<alert>> : alert \in PlainAlerts}
PlainLists == UNION {[1..n -> PlainPointers] : n \in 0..MaxAlerts}

ApplyWithBasicAuth(username, password) ==
    /\ calls = 0
    /\ Len(applied) < MaxOptions
    /\ Applied("WithBasicAuth", <<username, password>>, WithBasicAuth(username, password, Client))
    /\ UNCHANGED lastSet

EmitErr(alerts, answer) == Emitted(alerts, EmitError(am, alerts, answer))

InitEmitErr ==
    /\ \E endpoint \in EmitEndpoints \ {<<>>}, base \in BaseMaps \ {<<EmptyMap, EmptyMap>>} :
            am = [ZeroAlertmanager EXCEPT !.endpoint = endpoint,
                                          !.labels = base[1], !.annotations = base[2]]
    /\ hc = ZeroHTTPClient
    /\ lastOpt = NoOption
    /\ applied = <<>>
    /\ lastSet = NothingSet
    /\ InitEmit
    /\ InitBuild
NextEmitErr ==
    \/ \E username \in Usernames, password \in Passwords :
            ApplyWithBasicAuth(username, password)
    \/ \E alerts \in PlainLists, answer \in Answers : EmitErr(alerts, answer)
SpecEmitErr == InitEmitErr /\ [][NextEmitErr]_vars

\* what client.Do gave the last call is a response without an error
Answered == got.err = "nil" /\ got.resp /= <<>>

\* C9 (as the code has it): the error-returning Emit called with at least
\* one argument returns no error exactly when client.Do gave a response of
\* status 200; any other status returns ErrEmissionFailed and a failure of
\* client.Do returns that failure.  Called with no argument it returns no
\* error and sends nothing.
C9_OnlyStatus200 ==
    calls > 0 =>
        IF args = <<>> THEN ret.err = "nil" /\ lastRequest = <<>>
        ELSE /\ lastRequest /= <<>>
             /\ ret.err = "nil" <=> Answered /\ got.resp[1].StatusCode = 200
             /\ Answered /\ got.resp[1].StatusCode /= 200 => ret.err = "ErrEmissionFailed"
             /\ got.err /= "nil" => ret.err = got.err
\* C9 as stated: no error if and only if a response of status 200 was received
C9_NoErrorIffStatus200 ==
    calls > 0 => (ret.err = "nil" <=> Answered /\ got.resp[1].StatusCode = 200)
\* a 204 answer to one alert: ErrEmissionFailed
C9_Witness ==
    /\ Len(args) = 1 /\ args[1] /= <<>>
    /\ got = Response(204)
    /\ ret.err = "ErrEmissionFailed"

\* C10: WithBasicAuth returns no error and leaves the username and the
\* password exactly as given; a request Emit sent has an Authorization
\* header exactly when both are non-empty (its value Basic and the base64
\* of username:password) and always Content-Type: application/json.
C10_AuthorizationIffBoth ==
    /\ lastOpt.name = "WithBasicAuth" =>
        /\ lastOpt.err = "nil"
        /\ am.username = lastOpt.raw[1] /\ am.password = lastOpt.raw[2]
    /\ lastRequest /= <<>> =>
        /\ lastRequest[1].Header["Content-Type"] = <<"application/json">>
        /\ "Authorization" \in DOMAIN lastRequest[1].Header
                <=> am.username /= <<>> /\ am.password /= <<>>
        /\ "Authorization" \in DOMAIN lastRequest[1].Header =>
                lastRequest[1].Header["Authorization"]
                    = << BasicAuthValue(am.username, am.password) >>
\* a username without a password: stored, and the request has no Authorization
C10_Witness ==
    /\ lastOpt.name = "WithBasicAuth" /\ lastOpt.raw = <<s_bob, <<>>>>
    /\ am.username = s_bob /\ am.password = <<>>
    /\ lastRequest /= <<>>
    /\ DOMAIN lastRequest[1].Header = {"Content-Type"}

(***************************************************************************)
(* Construction.  An option value is a record of the option's name and its  *)
(* arguments; the arguments an option does not have keep their zero value.  *)
(***************************************************************************)
ZeroOption ==
    [name |-> "", url |-> <<>>, username |-> <<>>, password |-> <<>>, caCert |-> <<>>,
     sys |-> [ok |-> TRUE, certs |-> {"system"}], flag |-> FALSE, version |-> 0,
     timeout |-> 0, key |-> "", value |-> ""]
OptEndpoint(endpoint) == [ZeroOption EXCEPT !.name = "WithEndpoint", !.url = endpoint]
OptBasicAuth(username, password) ==
    [ZeroOption EXCEPT !.name = "WithBasicAuth", !.username = username, !.password = password]
OptCustomCA(caCert, sys) ==
    [ZeroOption EXCEPT !.name = "WithCustomCA", !.caCert = caCert, !.sys = sys]
OptInsecure(flag) == [ZeroOption EXCEPT !.name = "WithInsecure", !.flag = flag]
OptMinTLSVersion(version) == [ZeroOption EXCEPT !.name = "WithMinTLSVersion", !.version = version]
OptMaxTLSVersion(version) == [ZeroOption EXCEPT !.name = "WithMaxTLSVersion", !.version = version]
OptProxyURL(proxyURL) == [ZeroOption EXCEPT !.name = "WithProxyURL", !.url = proxyURL]
OptTimeout(timeout) == [ZeroOption EXCEPT !.name = "WithTimeout", !.timeout = timeout]
OptBaseLabel(key, value) ==
    [ZeroOption EXCEPT !.name = "WithBaseLabel", !.key = key, !.value = value]
OptBaseAnnotation(key, value) ==
    [ZeroOption EXCEPT !.name = "WithBaseAnnotation", !.key = key, !.value = value]

\* opt(am): the option o applied to the client c
ApplyOption(o, c) ==
    CASE o.name = "WithEndpoint" -> WithEndpoint(o.url, c)
      [] o.name = "WithBasicAuth" -> WithBasicAuth(o.username, o.password, c)
      [] o.name = "WithCustomCA" -> WithCustomCA(o.caCert, o.sys, c)
      [] o.name = "WithInsecure" -> WithInsecure(o.flag, c)
      [] o.name = "WithMinTLSVersion" -> WithMinTLSVersion(o.version, c)
      [] o.name = "WithMaxTLSVersion" -> WithMaxTLSVersion(o.version, c)
      [] o.name = "WithProxyURL" -> WithProxyURL(o.url, c)
      [] o.name = "WithTimeout" -> WithTimeout(o.timeout, c)
      [] o.name = "WithBaseLabel" -> WithBaseLabel(o.key, o.value, c)
      [] o.name = "WithBaseAnnotation" -> WithBaseAnnotation(o.key, o.value, c)

\* what a constructor gives: the client returned (nil or one Alertmanager),
\* the error, the http.Client as the options left it, the options that were
\* called with the error of each, and the number of files read
NoClient == [am |-> <<>>, err |-> "nil"]
Constructed(c, trace) ==
    [am |-> <<c.am>>, hc |-> <<c.hc>>, err |-> "nil", trace |-> trace, reads |-> 0]
Aborted(r, trace) ==
    [am |-> <<>>, hc |-> <<r.hc>>, err |-> r.err, trace |-> trace, reads |-> 0]
Refused(e, reads) == [am |-> <<>>, hc |-> <<>>, err |-> e, trace |-> <<>>, reads |-> reads]
Step(o, r, trace) == Append(trace, [index |-> Len(trace) + 1, name |-> o.name, err |-> r.err])

\* the loop of NewAlertmanager over its options, i the option reached
RECURSIVE ApplyAll(_, _, _, _)
\* a loop that goes on to the next option after a failed one
ApplyNext_PastFailure(r, options, i, trace) ==
    ApplyAll([am |-> r.am, hc |-> r.hc], options, i + 1, Step(options[i], r, trace))
\* if err := opt(am); err != nil { return nil, err }, opt(am) having given r
ApplyNext(r, options, i, trace) ==
    IF r.err /= "nil" THEN Aborted(r, Step(options[i], r, trace))
    ELSE ApplyAll([am |-> r.am, hc |-> r.hc], options, i + 1, Step(options[i], r, trace))
ApplyAll(c, options, i, trace) ==
    IF i > Len(options) THEN Constructed(c, trace)
    ELSE ApplyNext(ApplyOption(options[i], c), options, i, trace)

\* NewAlertmanager(logger, client, options...), client a pointer
\* a constructor that runs the options before it looks at the client
NewAlertmanager_OptionsFirst(client, options) ==
    IF ApplyAll([am |-> ZeroAlertmanager, hc |-> ZeroHTTPClient], options, 1, <<>>).err /= "nil"
    THEN ApplyAll([am |-> ZeroAlertmanager, hc |-> ZeroHTTPClient], options, 1, <<>>)
    ELSE IF client = <<>> THEN Refused("ErrNilHTTPClient", 0)
    ELSE ApplyAll([am |-> ZeroAlertmanager, hc |-> client[1]], options, 1, <<>>)
\* a constructor that refuses a client left without endpoint
NewAlertmanager_EndpointRequired(client, options) ==
    IF client = <<>> THEN Refused("ErrNilHTTPClient", 0)
    ELSE IF ApplyAll([am |-> ZeroAlertmanager, hc |-> client[1]], options, 1, <<>>).err = "nil"
            /\ ApplyAll([am |-> ZeroAlertmanager, hc |-> client[1]], options, 1, <<>>).am[1].endpoint = <<>>
    THEN [ApplyAll([am |-> ZeroAlertmanager, hc |-> client[1]], options, 1, <<>>)
            EXCEPT !.am = <<>>, !.err = "ErrEndpointRequired"]
    ELSE ApplyAll([am |-> ZeroAlertmanager, hc |-> client[1]], options, 1, <<>>)
NewAlertmanager(client, options) ==
    IF client = <<>> THEN Refused("ErrNilHTTPClient", 0)
    ELSE ApplyAll([am |-> ZeroAlertmanager, hc |-> client[1]], options, 1, <<>>)

\* stringToSecureTLSVersion once it answers as it does for TLS12
StringToSecureTLSVersion_TLS11Allowed(version) ==
    CASE version = "TLS10" -> [version |-> 0, err |-> "TLS 1.0 is not allowed"]
      [] version = "TLS11" -> [version |-> TLS11, err |-> "nil"]
      [] version = "TLS12" -> [version |-> TLS12, err |-> "nil"]
      [] version = "TLS13" -> [version |-> TLS13, err |-> "nil"]
      [] OTHER -> [version |-> 0, err |-> "must be one of: TLS12, TLS13"]
StringToSecureTLSVersion(version) ==
    CASE version = "TLS10" -> [version |-> 0, err |-> "TLS 1.0 is not allowed"]
      [] version = "TLS11" -> [version |-> 0, err |-> "TLS 1.1 is not allowed"]
      [] version = "TLS12" -> [version |-> TLS12, err |-> "nil"]
      [] version = "TLS13" -> [version |-> TLS13, err |-> "nil"]
      [] OTHER -> [version |-> 0, err |-> "must be one of: TLS12, TLS13"]

\* timeout := args.Timeout; if timeout == 0 { timeout = 2 * time.Second }
\* (durations in seconds)
DefaultTimeout == 2
ArgsTimeout_NoDefault(timeout) == timeout
ArgsTimeout(timeout) == IF timeout = 0 THEN DefaultTimeout ELSE timeout

\* the else-if of the credentials: one of the two is set and not both
PartialCredentials_UsernameOnly(username, password) == username /= <<>> /\ password = <<>>
PartialCredentials(username, password) ==
    ~(username /= <<>> /\ password /= <<>>) /\ (username /= <<>> \/ password /= <<>>)

\* the options NewAlertmanagerWithArgs collects, in its order; env is what
\* the machine gives: env.file for os.ReadFile(args.TLSCACertPath) and
\* env.sys for x509.SystemCertPool()
\* a list with the TLS version options in front of the proxy
ArgsOptions_VersionsBeforeProxy(a, env) ==
    << OptEndpoint(a.AlertmanagerURL), OptTimeout(ArgsTimeout(a.Timeout)) >>
    \o (IF a.Username /= <<>> /\ a.Password /= <<>>
        THEN << OptBasicAuth(a.Username, a.Password) >> ELSE <<>>)
    \o (IF a.TLSCACertPath /= "" THEN << OptCustomCA(env.file.content, env.sys) >> ELSE <<>>)
    \o (IF a.TLSInsecureSkipVerify THEN << OptInsecure(TRUE) >> ELSE <<>>)
    \o (IF a.TLSMinVersion /= ""
        THEN << OptMinTLSVersion(StringToSecureTLSVersion(a.TLSMinVersion).version) >>
        ELSE <<>>)
    \o (IF a.TLSMaxVersion /= ""
        THEN << OptMaxTLSVersion(StringToSecureTLSVersion(a.TLSMaxVersion).version) >>
        ELSE <<>>)
    \o (IF a.ProxyURL /= <<>> THEN << OptProxyURL(a.ProxyURL) >> ELSE <<>>)
ArgsOptions(a, env) ==
    << OptEndpoint(a.AlertmanagerURL), OptTimeout(ArgsTimeout(a.Timeout)) >>
    \o (IF a.Username /= <<>> /\ a.Password /= <<>>
        THEN << OptBasicAuth(a.Username, a.Password) >> ELSE <<>>)
    \o (IF a.TLSCACertPath /= "" THEN << OptCustomCA(env.file.content, env.sys) >> ELSE <<>>)
    \o (IF a.TLSInsecureSkipVerify THEN << OptInsecure(TRUE) >> ELSE <<>>)
    \o (IF a.ProxyURL /= <<>> THEN << OptProxyURL(a.ProxyURL) >> ELSE <<>>)
    \o (IF a.TLSMinVersion /= ""
        THEN << OptMinTLSVersion(StringToSecureTLSVersion(a.TLSMinVersion).version) >>
        ELSE <<>>)
    \o (IF a.TLSMaxVersion /= ""
        THEN << OptMaxTLSVersion(StringToSecureTLSVersion(a.TLSMaxVersion).version) >>
        ELSE <<>>)
\* the number of calls of os.ReadFile
FileReads(a) == IF a.TLSCACertPath /= "" THEN 1 ELSE 0
\* client, err := NewAlertmanager(logger, httpClient, opts...) has given r
ArgsResult(r, reads) ==
    IF r.err /= "nil"
    THEN [r EXCEPT !.am = <<>>, !.err = "failed to create alertmanager client", !.reads = reads]
    ELSE [r EXCEPT !.reads = reads]
\* NewAlertmanagerWithArgs with args.Enabled
EnabledWithArgs(a, env) ==
    IF a.AlertmanagerURL = <<>>
    THEN Refused("alertmanager URL must be provided when enabled", 0)
    ELSE IF PartialCredentials(a.Username, a.Password)
    THEN Refused("both basic auth username and password must be provided together", 0)
    ELSE IF a.TLSCACertPath /= "" /\ ~env.file.ok
    THEN Refused("failed to read CA cert", 1)
    ELSE IF a.TLSMinVersion /= "" /\ StringToSecureTLSVersion(a.TLSMinVersion).err /= "nil"
    THEN Refused("invalid TLS min version", FileReads(a))
    ELSE IF a.TLSMaxVersion /= "" /\ StringToSecureTLSVersion(a.TLSMaxVersion).err /= "nil"
    THEN Refused("invalid TLS max version", FileReads(a))
    ELSE ArgsResult(NewAlertmanager(<<ZeroHTTPClient>>, ArgsOptions(a, env)),
                    FileReads(a))
\* a constructor that does not look at args.Enabled
NewAlertmanagerWithArgs_Always(a, env) == EnabledWithArgs(a, env)
\* NewAlertmanagerWithArgs(logger, args)
NewAlertmanagerWithArgs(a, env) ==
    IF ~a.Enabled THEN Refused("nil", 0) ELSE EnabledWithArgs(a, env)

(***************************************************************************)
(* SpecNew: one call of a constructor: NewAlertmanager on a new            *)
(* http.Client (or on nil) with up to MaxOptions options, or               *)
(* NewAlertmanagerWithArgs.                                                *)
(***************************************************************************)
s_label == "team"
OptionPool ==
    {OptEndpoint(s_http \o s_hostport \o s_path), OptEndpoint(<<>>),
     OptEndpoint(s_http \o <<"/", "/">>), OptProxyURL(<<":", "x">>), OptProxyURL(s_proxy1),
     OptTimeout(30), OptBasicAuth(s_bob, s_frogs), OptBaseLabel(s_label, "x")}
OptionLists == UNION {[1..n -> OptionPool] : n \in 0..MaxOptions}
ClientPointers == {<<>>, <<ZeroHTTPClient>>}

ArgsInputs ==
    [Enabled : BOOLEAN,
     AlertmanagerURL : {<<>>, s_http \o s_hostport, s_notvalid},
     Username : Usernames, Password : Passwords,
     TLSCACertPath : {"", "/etc/ca.pem"},
     TLSInsecureSkipVerify : BOOLEAN,
     TLSMinVersion : {"", "TLS10", "TLS12", "TLS13", "tls12"},
     TLSMaxVersion : {"", "TLS11", "TLS12", "TLS13"},
     ProxyURL : {<<>>, s_proxy1, <<":", "x">>},
     Timeout : {-1, 0, 30}]
\* os.ReadFile gives the certificate or fails; the system pool loads
Environments ==
    {[file |-> [ok |-> TRUE, content |-> <<"certA">>], sys |-> [ok |-> TRUE, certs |-> {"system"}]],
     [file |-> [ok |-> FALSE, content |-> <<>>], sys |-> [ok |-> TRUE, certs |-> {"system"}]]}

\* the constructor fn was called on input and gave r
Built(fn, input, r) ==
    /\ built.fn = ""
    /\ built' = [fn |-> fn, input |-> input, out |-> [am |-> r.am, err |-> r.err],
                 trace |-> r.trace, reads |-> r.reads]
    /\ am' = IF r.am /= <<>> THEN r.am[1] ELSE am
    /\ hc' = IF r.hc /= <<>> THEN r.hc[1] ELSE hc
    /\ UNCHANGED <<lastOpt, applied, lastSet>>
    /\ UNCHANGED emitVars
    /\ UNCHANGED <<orders, subject, written, emitters, shared>>

CallNewAlertmanager ==
    /\ built.fn = ""
    /\ \E client \in ClientPointers, options \in OptionLists :
            Built("NewAlertmanager", [client |-> client, options |-> options],
                  NewAlertmanager(client, options))
CallNewAlertmanagerWithArgs ==
    /\ built.fn = ""
    /\ \E a \in ArgsInputs, env \in Environments :
            /\ a.TLSCACertPath = "" => env.file.ok
            /\ Built("NewAlertmanagerWithArgs", [args |-> a, env |-> env],
                     NewAlertmanagerWithArgs(a, env))

InitNew == InitClient /\ InitEmit /\ InitBuild
NextNew == CallNewAlertmanager \/ CallNewAlertmanagerWithArgs
SpecNew == InitNew /\ [][NextNew]_vars

\* C12: NewAlertmanager on a non-nil http.Client calls its options in
\* argument order, each once, up to and including the first that fails; it
\* then returns no client and that option's error; it returns a client
\* (and no error) exactly when every option was called and none failed.
C12_OptionsInOrderUntilFailure ==
    built.fn = "NewAlertmanager" /\ built.input.client /= <<>> =>
        /\ Len(built.trace) <= Len(built.input.options)
        /\ \A i \in 1..Len(built.trace) :
            /\ built.trace[i].index = i
            /\ built.trace[i].name = built.input.options[i].name
            /\ i < Len(built.trace) => built.trace[i].err = "nil"
        /\ IF built.out.err /= "nil"
           THEN /\ built.out.am = <<>>
                /\ built.trace /= <<>>
                /\ built.trace[Len(built.trace)].err = built.out.err
           ELSE /\ built.out.am /= <<>>
                /\ Len(built.trace) = Len(built.input.options)
                /\ \A i \in 1..Len(built.trace) : built.trace[i].err = "nil"
\* WithTimeout(30), WithEndpoint(""), WithBasicAuth: the second fails, the
\* third is not applied, the first had been
C12_Witness ==
    /\ built.fn = "NewAlertmanager"
    /\ built.input.options = << OptTimeout(30), OptEndpoint(<<>>), OptBasicAuth(s_bob, s_frogs) >>
    /\ built.out = [am |-> <<>>, err |-> "ErrEndpointRequired"]
    /\ Len(built.trace) = 2
    /\ hc.Timeout = 30

\* the call was NewAlertmanagerWithArgs
WithArgs == built.fn = "NewAlertmanagerWithArgs"
\* the option name was called
Called(name) == \E i \in 1..Len(built.trace) : built.trace[i].name = name

\* C16: NewAlertmanagerWithArgs with Enabled false returns no client and no
\* error whatever the other fields hold: no file is read, no option is
\* applied.
C16_DisabledGivesNothing ==
    WithArgs /\ ~built.input.args.Enabled =>
        /\ built.out = NoClient
        /\ built.reads = 0
        /\ built.trace = <<>>
        /\ am = ZeroAlertmanager /\ hc = ZeroHTTPClient
\* disabled, with an invalid URL, a lone username, a CA path whose file is
\* missing and a refused TLS version
C16_Witness ==
    /\ WithArgs /\ ~built.input.args.Enabled
    /\ built.input.args.AlertmanagerURL = s_notvalid
    /\ built.input.args.Username = s_bob /\ built.input.args.Password = <<>>
    /\ built.input.args.TLSCACertPath /= "" /\ ~built.input.env.file.ok
    /\ built.input.args.TLSMinVersion = "TLS10"
    /\ built.out = NoClient

\* C17: with Enabled true, exactly one of Username and Password non-empty
\* is a configuration error with no client; both empty gives a client
\* without basic auth; both non-empty gives a client with exactly these
\* credentials.
C17_CredentialsTogether ==
    WithArgs /\ built.input.args.Enabled /\ built.input.args.AlertmanagerURL /= <<>> =>
        /\ (built.input.args.Username = <<>>) /= (built.input.args.Password = <<>>) =>
                /\ built.out.am = <<>>
                /\ built.out.err = "both basic auth username and password must be provided together"
                /\ built.trace = <<>>
        /\ built.input.args.Username = <<>> /\ built.input.args.Password = <<>> =>
                /\ ~Called("WithBasicAuth")
                /\ built.out.am /= <<>> =>
                        built.out.am[1].username = <<>> /\ built.out.am[1].password = <<>>
        /\ built.input.args.Username /= <<>> /\ built.input.args.Password /= <<>> =>
                /\ built.out.err /= "both basic auth username and password must be provided together"
                /\ built.out.am /= <<>> =>
                        /\ Called("WithBasicAuth")
                        /\ built.out.am[1].username = built.input.args.Username
                        /\ built.out.am[1].password = built.input.args.Password
\* a password without a username, everything else valid
C17_Witness ==
    /\ WithArgs /\ built.input.args.Enabled
    /\ built.input.args.AlertmanagerURL = s_http \o s_hostport
    /\ built.input.args.Username = <<>> /\ built.input.args.Password = s_frogs
    /\ built.input.args.TLSMinVersion = "" /\ built.input.args.TLSMaxVersion = ""
    /\ built.out.am = <<>>
    /\ built.out.err = "both basic auth username and password must be provided together"
\* both set, and the client holds them
C17_WitnessBoth ==
    /\ WithArgs /\ built.out.am /= <<>>
    /\ built.out.am[1].username = s_bob /\ built.out.am[1].password = s_frogs

\* the checks of NewAlertmanagerWithArgs before the TLS versions passed
ReachesTLS ==
    /\ WithArgs /\ built.input.args.Enabled /\ built.input.args.AlertmanagerURL /= <<>>
    /\ (built.input.args.Username = <<>>) = (built.input.args.Password = <<>>)
    /\ built.input.args.TLSCACertPath /= "" => built.input.env.file.ok
\* the TLS configuration of the returned client's transport
BuiltTLS == hc.Transport[1].TLSClientConfig[1]

\* C18: a non-empty TLSMinVersion or TLSMaxVersion is accepted only when it
\* is exactly "TLS12" or "TLS13", and then sets that version; any other
\* text is a configuration error with no client; an empty string leaves
\* the version unset.
C18_OnlySecureTLSVersions ==
    ReachesTLS =>
        /\ built.input.args.TLSMinVersion \notin {"", "TLS12", "TLS13"} =>
                built.out = [am |-> <<>>, err |-> "invalid TLS min version"] /\ built.trace = <<>>
        /\ built.input.args.TLSMinVersion \in {"", "TLS12", "TLS13"}
           /\ built.input.args.TLSMaxVersion \notin {"", "TLS12", "TLS13"} =>
                built.out = [am |-> <<>>, err |-> "invalid TLS max version"] /\ built.trace = <<>>
        /\ built.input.args.TLSMinVersion \in {"", "TLS12", "TLS13"}
           /\ built.input.args.TLSMaxVersion \in {"", "TLS12", "TLS13"} =>
                /\ built.out.err \notin {"invalid TLS min version", "invalid TLS max version"}
                /\ Called("WithMinTLSVersion") => built.input.args.TLSMinVersion /= ""
                /\ Called("WithMaxTLSVersion") => built.input.args.TLSMaxVersion /= ""
                /\ built.out.am /= <<>> =>
                        /\ Called("WithMinTLSVersion") <=> built.input.args.TLSMinVersion /= ""
                        /\ Called("WithMaxTLSVersion") <=> built.input.args.TLSMaxVersion /= ""
                /\ built.out.am /= <<>> /\ built.input.args.TLSMinVersion /= "" =>
                        BuiltTLS.MinVersion =
                            (IF built.input.args.TLSMinVersion = "TLS12" THEN TLS12 ELSE TLS13)
                /\ built.out.am /= <<>> /\ built.input.args.TLSMaxVersion /= "" =>
                        BuiltTLS.MaxVersion =
                            (IF built.input.args.TLSMaxVersion = "TLS12" THEN TLS12 ELSE TLS13)
\* "TLS11" as the maximum is refused, with a valid minimum
C18_Witness ==
    /\ ReachesTLS
    /\ built.input.args.TLSMinVersion = "TLS12" /\ built.input.args.TLSMaxVersion = "TLS11"
    /\ built.out = [am |-> <<>>, err |-> "invalid TLS max version"]
\* TLS12 to TLS13 is accepted and set
C18_WitnessSet ==
    /\ WithArgs /\ built.out.am /= <<>>
    /\ built.input.args.TLSMinVersion = "TLS12" /\ built.input.args.TLSMaxVersion = "TLS13"
    /\ BuiltTLS.MinVersion = TLS12 /\ BuiltTLS.MaxVersion = TLS13

\* C19: the HTTP client of a client returned by NewAlertmanagerWithArgs has
\* Timeout = Args.Timeout when that is not zero and two seconds when it is
\* zero; it is never zero.
C19_TimeoutDefaulted ==
    WithArgs /\ built.out.am /= <<>> =>
        /\ hc.Timeout /= 0
        /\ hc.Timeout = (IF built.input.args.Timeout = 0 THEN 2 ELSE built.input.args.Timeout)
\* a zero Args.Timeout became two seconds
C19_Witness ==
    /\ WithArgs /\ built.out.am /= <<>>
    /\ built.input.args.Timeout = 0
    /\ hc.Timeout = 2

(***************************************************************************)
(* SpecCommute: two options applied to one starting client, in both        *)
(* orders.                                                                 *)
(***************************************************************************)
\* a RoundTripper that is not an *http.Transport
CustomRoundTripper == [kind |-> "RoundTripper", Proxy |-> NoProxy, TLSClientConfig |-> <<>>]
StartClients ==
    {ZeroHTTPClient,
     [ZeroHTTPClient EXCEPT !.Transport = <<CustomRoundTripper>>],
     [ZeroHTTPClient EXCEPT !.Transport = <<NewTransport(NoProxy)>>],
     [ZeroHTTPClient EXCEPT !.Transport =
        << [NewTransport(ProxyFromEnvironment) EXCEPT !.TLSClientConfig = <<NewTLSConfig(0)>>] >>]}
CommuteOptions ==
    {OptCustomCA(<<"certA">>, [ok |-> TRUE, certs |-> {"system"}]),
     OptCustomCA(<<>>, [ok |-> FALSE, certs |-> {}]),
     OptInsecure(TRUE), OptInsecure(FALSE),
     OptMinTLSVersion(TLS12), OptMinTLSVersion(TLS13),
     OptMaxTLSVersion(TLS12), OptMaxTLSVersion(TLS13),
     OptProxyURL(s_proxy1), OptProxyURL(s_proxy2), OptProxyURL(<<>>), OptProxyURL(<<":", "x">>),
     OptTimeout(2), OptTimeout(30),
     OptBasicAuth(s_bob, s_frogs),
     OptBaseLabel(s_label, "x"), OptBaseLabel(s_label, "y"), OptBaseLabel("env", "x")}

\* the option o applied to the client r left by an earlier option, unless
\* that one failed
ApplyThen(r, o) == IF r.err /= "nil" THEN r ELSE ApplyOption(o, [am |-> r.am, hc |-> r.hc])
ApplyBoth(o1, o2, c) == ApplyThen(ApplyOption(o1, c), o2)

\* the options a then b are applied to the client; what b then a would
\* have given from the same start is kept beside it
ApplyPair(a, b) ==
    /\ orders.start = <<>>
    /\ orders' = [start |-> <<Client>>, first |-> <<a>>, second |-> <<b>>,
                  ab |-> <<ApplyBoth(a, b, Client)>>, ba |-> <<ApplyBoth(b, a, Client)>>]
    /\ am' = ApplyBoth(a, b, Client).am
    /\ hc' = ApplyBoth(a, b, Client).hc
    /\ UNCHANGED <<lastOpt, applied, lastSet>>
    /\ UNCHANGED emitVars
    /\ UNCHANGED <<built, subject, written, emitters, shared>>

InitCommute ==
    /\ am = ZeroAlertmanager
    /\ hc \in StartClients
    /\ lastOpt = NoOption /\ applied = <<>> /\ lastSet = NothingSet
    /\ InitEmit /\ InitBuild
NextCommute == \E a \in CommuteOptions, b \in CommuteOptions : ApplyPair(a, b)
SpecCommute == InitCommute /\ [][NextCommute]_vars

\* the two options write the same field of the client
SameField(a, b) ==
    /\ a.name = b.name
    /\ a.name = "WithBaseLabel" => a.key = b.key
\* the option writes its field (an empty proxy URL leaves the client alone)
Writes(o) == o.name = "WithProxyURL" => o.url /= <<>>
BothOrdersSucceed == orders.ab[1].err = "nil" /\ orders.ba[1].err = "nil"

\* C13: two successful options on different fields give the same client in
\* either order, from any starting client, the fields they default
\* included; two options on the same field leave what the later one wrote.
C13_OptionsCommute ==
    orders.start /= <<>> /\ BothOrdersSucceed =>
        /\ ~SameField(orders.first[1], orders.second[1]) => orders.ab = orders.ba
        /\ SameField(orders.first[1], orders.second[1]) /\ Writes(orders.second[1]) =>
                orders.ab[1] = ApplyOption(orders.second[1], orders.start[1])
\* WithMaxTLSVersion and WithInsecure on a client without transport: both
\* orders end with the TLS 1.2 minimum, the maximum and the flag
C13_Witness ==
    /\ orders.start /= <<>> /\ orders.start[1].hc = ZeroHTTPClient
    /\ orders.first[1] = OptMaxTLSVersion(TLS13) /\ orders.second[1] = OptInsecure(TRUE)
    /\ orders.ab = orders.ba
    /\ hc.Transport[1].TLSClientConfig[1] =
            [RootCAs |-> <<>>, InsecureSkipVerify |-> TRUE, MinVersion |-> TLS12,
             MaxVersion |-> TLS13]
    /\ hc.Transport[1].Proxy = ProxyFromEnvironment
\* WithProxyURL and WithMinTLSVersion, whose new transports differ
C13_WitnessProxy ==
    /\ orders.start /= <<>> /\ orders.start[1].hc = ZeroHTTPClient
    /\ orders.first[1] = OptProxyURL(s_proxy1) /\ orders.second[1] = OptMinTLSVersion(TLS13)
    /\ orders.ab = orders.ba
    /\ hc.Transport[1].Proxy.kind = "URL"
    /\ hc.Transport[1].TLSClientConfig[1].MinVersion = TLS13
\* two proxies: the second stays
C13_WitnessSameField ==
    /\ orders.start /= <<>>
    /\ orders.first[1] = OptProxyURL(s_proxy1) /\ orders.second[1] = OptProxyURL(s_proxy2)
    /\ orders.ab /= orders.ba
    /\ hc.Transport[1].Proxy = ProxyURL(ParseURL(s_proxy2))

(***************************************************************************)
(* Alerts: NewAlert and the alert options (the AlertOption closures), and  *)
(* the earlier form of the package in which WithLabel and WithAnnotation   *)
(* are methods of *Alert.                                                  *)
(***************************************************************************)
\* a label option that leaves a key it finds set
WithLabel_FirstKept(key, value, a) ==
    IF key \in DOMAIN Entries(a.Labels) THEN [a EXCEPT !.Labels = Entries(a.Labels)]
    ELSE [a EXCEPT !.Labels = MapSet(a.Labels, key, value)]
\* if a.Labels == nil { a.Labels = make(map[string]string) }; a.Labels[key] = value
WithLabel(key, value, a) == [a EXCEPT !.Labels = MapSet(a.Labels, key, value)]
WithAnnotation(key, value, a) == [a EXCEPT !.Annotations = MapSet(a.Annotations, key, value)]
\* a.StartsAt = &t
WithStartsAt(t, a) == [a EXCEPT !.StartsAt = <<t>>]
WithEndsAt(t, a) == [a EXCEPT !.EndsAt = <<t>>]

\* the AlertOption closures with what they captured
ZeroAlertOption == [kind |-> "", key |-> "", value |-> "", time |-> 0]
OptLabel(key, value) == [ZeroAlertOption EXCEPT !.kind = "label", !.key = key, !.value = value]
OptAnnotation(key, value) ==
    [ZeroAlertOption EXCEPT !.kind = "annotation", !.key = key, !.value = value]
OptStartsAt(t) == [ZeroAlertOption EXCEPT !.kind = "startsAt", !.time = t]
OptEndsAt(t) == [ZeroAlertOption EXCEPT !.kind = "endsAt", !.time = t]
\* opt(alert)
ApplyAlertOption(o, a) ==
    CASE o.kind = "label" -> WithLabel(o.key, o.value, a)
      [] o.kind = "annotation" -> WithAnnotation(o.key, o.value, a)
      [] o.kind = "startsAt" -> WithStartsAt(o.time, a)
      [] o.kind = "endsAt" -> WithEndsAt(o.time, a)

\* &Alert{Labels: make(map[string]string), Annotations: make(map[string]string)}
EmptyAlert == Alert(EmptyMap, EmptyMap, <<>>, <<>>)
\* for _, opt := range options { opt(alert) }
RECURSIVE ApplyAlertOptions(_, _, _)
ApplyAlertOptions(a, options, i) ==
    IF i > Len(options) THEN a
    ELSE ApplyAlertOptions(ApplyAlertOption(options[i], a), options, i + 1)
NewAlert(options) == ApplyAlertOptions(EmptyAlert, options, 1)

\* the methods of the earlier form: a.Labels[key] = value; return a.  An
\* assignment to an entry of a nil map panics.
MethodWithLabel(key, value, a) ==
    IF a.Labels = NilMap THEN [alert |-> a, panic |-> TRUE]
    ELSE [alert |-> [a EXCEPT !.Labels = MapSet(a.Labels, key, value)], panic |-> FALSE]
MethodWithAnnotation(key, value, a) ==
    IF a.Annotations = NilMap THEN [alert |-> a, panic |-> TRUE]
    ELSE [alert |-> [a EXCEPT !.Annotations = MapSet(a.Annotations, key, value)],
          panic |-> FALSE]

(***************************************************************************)
(* SpecAlert: an Alert made by NewAlert or written as a struct literal,    *)
(* then up to MaxAlertOptions options (or method calls) on it.             *)
(***************************************************************************)
MaxAlertOptions == 3

LabelOptions ==
    {OptLabel(k, v) : k \in {"alertname", "severity"}, v \in {"a", "b"}}
AnnotationOptions == {OptAnnotation("summary", v) : v \in {"a", "b"}}
AlertOptions == LabelOptions \cup AnnotationOptions \cup {OptStartsAt(2025)}
AlertOptionLists == UNION {[1..n -> AlertOptions] : n \in 0..MaxAlertOptions}
\* the Alert values a caller writes as &Alert{...}
LiteralAlerts ==
    {Alert(l, n, <<>>, <<>>) : l \in {NilMap, Map1("alertname", "z")}, n \in {NilMap, EmptyMap}}
Versions == {"options", "methods"}

AlertUnchanged ==
    /\ UNCHANGED clientVars
    /\ UNCHANGED emitVars
    /\ UNCHANGED <<built, orders, emitters, shared>>

\* alert := NewAlert(options...)
CallNewAlert ==
    /\ subject = <<>>
    /\ \E options \in AlertOptionLists :
        /\ subject' = <<NewAlert(options)>>
        /\ written' = [version |-> "options", origin |-> "NewAlert", start |-> <<EmptyAlert>>,
                       ops |-> options, panicked |-> FALSE]
    /\ AlertUnchanged
\* alert := NewAlert() of the earlier form
CallNewAlertOfMethods ==
    /\ subject = <<>>
    /\ subject' = <<EmptyAlert>>
    /\ written' = [version |-> "methods", origin |-> "NewAlert", start |-> <<EmptyAlert>>,
                   ops |-> <<>>, panicked |-> FALSE]
    /\ AlertUnchanged
\* alert := &Alert{Labels: ..., Annotations: ...}
WriteLiteral ==
    /\ subject = <<>>
    /\ \E version \in Versions, a \in LiteralAlerts :
        /\ subject' = <<a>>
        /\ written' = [version |-> version, origin |-> "literal", start |-> <<a>>,
                       ops |-> <<>>, panicked |-> FALSE]
    /\ AlertUnchanged
\* opt(alert) for an option of the caller's
CallAlertOption ==
    /\ subject /= <<>> /\ written.version = "options"
    /\ Len(written.ops) < MaxAlertOptions
    /\ \E o \in AlertOptions :
        /\ subject' = <<ApplyAlertOption(o, subject[1])>>
        /\ written' = [written EXCEPT !.ops = Append(@, o)]
    /\ AlertUnchanged
\* the method call gave r
MethodCalled(o, r) ==
    /\ subject' = <<r.alert>>
    /\ written' = [written EXCEPT !.ops = Append(@, o), !.panicked = r.panic]
    /\ AlertUnchanged
\* alert.WithLabel(key, value)
CallWithLabel ==
    /\ subject /= <<>> /\ written.version = "methods" /\ ~written.panicked
    /\ Len(written.ops) < MaxAlertOptions
    /\ \E o \in LabelOptions : MethodCalled(o, MethodWithLabel(o.key, o.value, subject[1]))
\* alert.WithAnnotation(key, value)
CallWithAnnotation ==
    /\ subject /= <<>> /\ written.version = "methods" /\ ~written.panicked
    /\ Len(written.ops) < MaxAlertOptions
    /\ \E o \in AnnotationOptions :
            MethodCalled(o, MethodWithAnnotation(o.key, o.value, subject[1]))

InitAlert == InitClient /\ InitEmit /\ InitBuild
NextAlert ==
    \/ CallNewAlert
    \/ CallNewAlertOfMethods
    \/ WriteLiteral
    \/ CallAlertOption
    \/ CallWithLabel
    \/ CallWithAnnotation
SpecAlert == InitAlert /\ [][NextAlert]_vars

\* the positions of the options of the kind given
OpsOf(kind) == {i \in 1..Len(written.ops) : written.ops[i].kind = kind}
\* the keys the options of this kind wrote
KeysWritten(kind) == {written.ops[i].key : i \in OpsOf(kind)}
\* the value of the last option of this kind that wrote the key
LastWritten(kind, key) ==
    written.ops[CHOOSE i \in OpsOf(kind) :
                    /\ written.ops[i].key = key
                    /\ \A j \in OpsOf(kind) : written.ops[j].key = key => j <= i].value
\* the map holds the start's entries under what the options of the kind wrote
LastWriteWins(m, kind, start) ==
    /\ m /= NilMap
    /\ DOMAIN m = DOMAIN Entries(start) \cup KeysWritten(kind)
    /\ \A k \in DOMAIN m :
            m[k] = (IF k \in KeysWritten(kind) THEN LastWritten(kind, k) ELSE Entries(start)[k])

\* C14: after NewAlert with a sequence of options (and options applied to
\* its result afterwards) the labels are exactly the keys the WithLabel
\* options wrote, each with the value of the last one that wrote it, and
\* the annotations the same for the WithAnnotation options; neither kind
\* shows in the other map.
C14_LastWriteWins ==
    subject /= <<>> /\ written.version = "options" /\ written.origin = "NewAlert" =>
        /\ LastWriteWins(subject[1].Labels, "label", EmptyMap)
        /\ LastWriteWins(subject[1].Annotations, "annotation", EmptyMap)
\* alertname written twice around an annotation: the later value stays
C14_Witness ==
    /\ subject /= <<>> /\ written.version = "options" /\ written.origin = "NewAlert"
    /\ written.ops = << OptLabel("alertname", "a"), OptAnnotation("summary", "b"),
                        OptLabel("alertname", "b") >>
    /\ subject[1].Labels = Map1("alertname", "b")
    /\ subject[1].Annotations = Map1("summary", "b")

\* the alert options on any Alert value: a touched map is not nil and holds
\* the entries it had under what was written
C15_OptionsNeverNil ==
    subject /= <<>> /\ written.version = "options" =>
        /\ ~written.panicked
        /\ written.origin = "NewAlert" =>
                subject[1].Labels /= NilMap /\ subject[1].Annotations /= NilMap
        /\ OpsOf("label") /= {} =>
                LastWriteWins(subject[1].Labels, "label", written.start[1].Labels)
        /\ OpsOf("annotation") /= {} =>
                LastWriteWins(subject[1].Annotations, "annotation", written.start[1].Annotations)
\* C15: an alert made by NewAlert has two maps that are not nil, and after
\* WithLabel or WithAnnotation on any Alert value, one with nil maps
\* included, the map that was touched is not nil (in the form of options
\* and in the form of methods).
C15_NeverNil ==
    subject /= <<>> =>
        /\ ~written.panicked
        /\ written.origin = "NewAlert" =>
                subject[1].Labels /= NilMap /\ subject[1].Annotations /= NilMap
        /\ OpsOf("label") /= {} => subject[1].Labels /= NilMap
        /\ OpsOf("annotation") /= {} => subject[1].Annotations /= NilMap
\* (&Alert{}).WithLabel("alertname", "a") of the earlier form panics and
\* the labels stay nil
C15_Witness ==
    /\ subject /= <<>> /\ written.version = "methods" /\ written.origin = "literal"
    /\ written.start[1].Labels = NilMap
    /\ written.ops = << OptLabel("alertname", "a") >>
    /\ written.panicked
    /\ subject[1].Labels = NilMap
\* the option on the same value gives a map
C15_WitnessOption ==
    /\ subject /= <<>> /\ written.version = "options" /\ written.origin = "literal"
    /\ written.start[1].Labels = NilMap
    /\ written.ops = << OptLabel("alertname", "a") >>
    /\ subject[1].Labels = Map1("alertname", "a")

(***************************************************************************)
(* SpecLifecycle: a client is constructed, by NewAlertmanager or by        *)
(* NewAlertmanagerWithArgs, and when the constructor returned one, Emit is *)
(* called on it up to MaxCalls times.                                      *)
(***************************************************************************)
s_endpoint == s_http \o s_hostport
LifecycleOptions ==
    {<<>>,
     << OptEndpoint(s_endpoint) >>,
     << OptEndpoint(<<>>) >>,
     << OptEndpoint(s_http \o <<"/", "/">>) >>,
     << OptTimeout(30), OptBaseLabel(s_label, "x") >>,
     << OptBaseLabel(s_label, "x"), OptEndpoint(s_endpoint \o s_path) >>}
BareArgs ==
    [Enabled |-> TRUE, AlertmanagerURL |-> <<>>, Username |-> <<>>, Password |-> <<>>,
     TLSCACertPath |-> "", TLSInsecureSkipVerify |-> FALSE, TLSMinVersion |-> "",
     TLSMaxVersion |-> "", ProxyURL |-> <<>>, Timeout |-> 0]
LifecycleArgs ==
    {[BareArgs EXCEPT !.Enabled = enabled, !.AlertmanagerURL = u] :
        enabled \in BOOLEAN, u \in {<<>>, s_endpoint, s_notvalid}}
FileThere ==
    [file |-> [ok |-> TRUE, content |-> <<"certA">>], sys |-> [ok |-> TRUE, certs |-> {"system"}]]

Construct ==
    /\ built.fn = ""
    /\ \E client \in ClientPointers, options \in LifecycleOptions :
            Built("NewAlertmanager", [client |-> client, options |-> options],
                  NewAlertmanager(client, options))
ConstructWithArgs ==
    /\ built.fn = ""
    /\ \E a \in LifecycleArgs :
            Built("NewAlertmanagerWithArgs", [args |-> a, env |-> FileThere],
                  NewAlertmanagerWithArgs(a, FileThere))
\* am.Emit(alerts...) on the client the constructor returned
EmitOnBuilt ==
    /\ built.out.am /= <<>>
    /\ calls < MaxCalls
    /\ \E alerts \in PlainLists, answer \in Answers : Emit(alerts, answer)

InitLifecycle == InitClient /\ InitEmit /\ InitBuild
NextLifecycle == Construct \/ ConstructWithArgs \/ EmitOnBuilt
SpecLifecycle == InitLifecycle /\ [][NextLifecycle]_vars

\* the endpoint parses to a URL with a scheme and a host
ValidEndpoint(endpoint) ==
    /\ endpoint /= <<>>
    /\ ParseURL(endpoint).err = "nil"
    /\ ParseURL(endpoint).Scheme /= <<>>
    /\ ParseURL(endpoint).Host /= <<>>

\* C20 (as the code has it): an endpoint that is given is checked at
\* construction: NewAlertmanagerWithArgs returns a client only with a
\* valid endpoint, and so does NewAlertmanager when a WithEndpoint option
\* is among its options.  NewAlertmanager without a WithEndpoint option
\* returns a client whose endpoint is empty, and never fails for the
\* missing endpoint; on that client every Emit returns ErrEndpointRequired
\* and sends no request.
C20_EndpointCheckedWhereGiven ==
    /\ WithArgs /\ built.out.am /= <<>> => ValidEndpoint(am.endpoint)
    /\ built.fn = "NewAlertmanager" /\ built.out.am /= <<>> =>
            IF Called("WithEndpoint") THEN ValidEndpoint(am.endpoint) ELSE am.endpoint = <<>>
    /\ built.fn = "NewAlertmanager" /\ built.out.err = "ErrEndpointRequired" =>
            /\ built.trace /= <<>>
            /\ built.trace[Len(built.trace)] =
                    [index |-> Len(built.trace), name |-> "WithEndpoint",
                     err |-> "ErrEndpointRequired"]
    /\ calls > 0 /\ am.endpoint = <<>> =>
            /\ ret = [resp |-> <<>>, err |-> "ErrEndpointRequired"]
            /\ lastRequest = <<>>
            /\ posts = 0
\* C20: no constructor returns a client whose endpoint lacks a scheme and
\* a host, so no Emit call runs without a valid endpoint.
C20_NoClientWithoutEndpoint ==
    /\ built.out.am /= <<>> => ValidEndpoint(am.endpoint)
    /\ calls > 0 => ValidEndpoint(am.endpoint)
\* NewAlertmanager with no options returned a client; Emit on it fails at
\* the call
C20_Witness ==
    /\ built.fn = "NewAlertmanager" /\ built.input.options = <<>>
    /\ built.out.am /= <<>> /\ built.out.err = "nil"
    /\ am.endpoint = <<>>
    /\ calls = 1 /\ Len(args) = 1 /\ args[1] /= <<>>
    /\ ret.err = "ErrEndpointRequired" /\ posts = 0

\* C21: NewAlertmanager on a nil http.Client returns no client and
\* ErrNilHTTPClient whatever the options are, and calls none of them.
C21_NilClientRefused ==
    built.fn = "NewAlertmanager" /\ built.input.client = <<>> =>
        /\ built.out = [am |-> <<>>, err |-> "ErrNilHTTPClient"]
        /\ built.trace = <<>>
        /\ am = ZeroAlertmanager /\ hc = ZeroHTTPClient
\* a nil client with an option list whose first option would fail
C21_Witness ==
    /\ built.fn = "NewAlertmanager" /\ built.input.client = <<>>
    /\ built.input.options = << OptEndpoint(<<>>), OptTimeout(30) >>
    /\ built.out.err = "ErrNilHTTPClient"
    /\ built.trace = <<>>

(***************************************************************************)
(* Emit in its steps, for calls that run at the same time on one client.   *)
(* Each step takes the client a as it is at that moment and gives back     *)
(* what it leaves of the client and of the alert it worked on.             *)
(***************************************************************************)
\* a merge that copies the alert's maps into the maps of the client
MergeStep_IntoBase(a, alert) ==
    [a |-> [a EXCEPT !.labels = MapsCopy(a.labels, alert.Labels),
                     !.annotations = MapsCopy(a.annotations, alert.Annotations)],
     alert |-> alert,
     merged |-> MergeAlert(a, alert)]
\* a merge that copies the maps of the client into the alert's own maps
MergeStep_IntoAlert(a, alert) ==
    [a |-> a,
     alert |-> [alert EXCEPT !.Labels = MapsCopy(Entries(alert.Labels), a.labels),
                             !.Annotations = MapsCopy(Entries(alert.Annotations),
                                                      a.annotations)],
     merged |-> MergeAlert(a, alert)]
\* one turn of the loop of the response-returning Emit: mergedAlert has
\* maps made anew, and the four maps.Copy write into these alone
MergeStep(a, alert) == [a |-> a, alert |-> alert, merged |-> MergeAlert(a, alert)]
\* the same turn of the error-returning Emit
MergeMapsStep(a, alert) == [a |-> a, alert |-> alert, merged |-> MergeMaps(a, alert)]
MergeStepOf(form, a, alert) ==
    IF form = "response" THEN MergeStep(a, alert) ELSE MergeMapsStep(a, alert)

\* the whole call, alone on the client a
Alone(form, a, alerts, answer) ==
    IF form = "response" THEN EmitResponse(a, alerts, answer) ELSE EmitError(a, alerts, answer)

\* a goroutine that has not called Emit
Idle(form) ==
    [form |-> form, pc |-> "idle", client |-> <<>>, given |-> <<>>, alerts |-> <<>>,
     answer |-> TransportFailure, i |-> 1, final |-> <<>>,
     body |-> [kind |-> "null", elems |-> <<>>], req |-> <<>>,
     out |-> Returned(<<>>, "nil"), solo |-> <<>>]
\* the call has returned r
Return(e, r) == [e EXCEPT !.pc = "done", !.out = r]

\* if a.endpoint == "" { return nil, ErrEndpointRequired }, and for the
\* error-returning form if len(alerts) == 0 { return nil }
CheckStep(a, e) ==
    IF e.form = "response" /\ a.endpoint = <<>> THEN Return(e, Returned(<<>>, "ErrEndpointRequired"))
    ELSE IF e.form = "error" /\ Len(e.alerts) = 0 THEN Return(e, Returned(<<>>, "nil"))
    ELSE [e EXCEPT !.pc = "merge", !.i = 1]
\* the turn of the loop for alerts[i] has given r
Merged(e, r) ==
    [e EXCEPT !.alerts[e.i] = <<r.alert>>, !.final = Append(@, r.merged), !.i = @ + 1]
\* body, err := json.Marshal(finalAlerts) has given m
MarshalStep(e, m) ==
    IF m.err /= "nil"
    THEN Return(e, Returned(<<>>, IF e.form = "response" THEN "failed to marshal alerts"
                                  ELSE m.err))
    ELSE [e EXCEPT !.pc = "request", !.body = m.json]
\* http.NewRequest(http.MethodPost, a.endpoint, body) has given new; the headers
RequestStep(a, e, new) ==
    IF new.err /= "nil"
    THEN Return(e, Returned(<<>>, IF e.form = "response" THEN "failed to create HTTP request"
                                  ELSE new.err))
    ELSE [e EXCEPT !.pc = "do",
                   !.req = << IF e.form = "response" THEN EmitHeaders(a, new.req)
                              ELSE EmitErrorHeaders(a, new.req) >>]
\* a.client.Do(req) and the return
DoStep(e) ==
    Return(e, IF e.form = "response" THEN EmitDo(e.req[1], e.answer)
              ELSE EmitErrorDo(e.req[1], e.answer))

(***************************************************************************)
(* SpecConcurrent: MaxEmitters goroutines call Emit once each on one       *)
(* configured client, their steps interleaved in every way.  No option is  *)
(* applied once the first call has started.                                *)
(***************************************************************************)
MaxEmitters == 2

Critical ==
    Alert(Map2("alertname", "critical", "instance", "n1"), Map1("summary", "a"), <<2025>>,
          <<2024>>)
Severe == Alert(Map1("severity", "critical"), NilMap, <<>>, <<>>)
Late == Alert(Map1("alertname", "late"), EmptyMap, <<10000>>, <<>>)
ConcurrentLists == {<<>>, << <<>>, <<Critical>> >>, << <<Severe>>, <<Critical>> >>, << <<Late>> >>}
ConcurrentAnswers == {TransportFailure, Response(200)}
Forms == {"response", "error"}
Goroutines == 1..MaxEmitters

\* the goroutine g has taken a step that left it as e
Stepped(g, e) ==
    /\ emitters' = [emitters EXCEPT ![g] = e]
    /\ UNCHANGED <<hc, lastOpt, applied, lastSet>>
    /\ UNCHANGED <<args, ret, got, lastRequest, calls>>
    /\ UNCHANGED <<built, orders, subject, written, shared>>

\* go am.Emit(alerts...)
EmitStart(g) ==
    /\ emitters[g].pc = "idle"
    /\ \E alerts \in ConcurrentLists, answer \in ConcurrentAnswers :
            Stepped(g, [emitters[g] EXCEPT !.pc = "check", !.client = <<am>>,
                                           !.given = alerts, !.alerts = alerts,
                                           !.answer = answer,
                                           !.solo = <<Alone(emitters[g].form, am, alerts,
                                                            answer)>>])
    /\ UNCHANGED <<am, posts>>
EmitCheck(g) ==
    /\ emitters[g].pc = "check"
    /\ Stepped(g, CheckStep(am, emitters[g]))
    /\ UNCHANGED <<am, posts>>
\* a nil entry: continue
EmitSkip(g) ==
    /\ emitters[g].pc = "merge" /\ emitters[g].i <= Len(emitters[g].alerts)
    /\ emitters[g].alerts[emitters[g].i] = <<>>
    /\ Stepped(g, [emitters[g] EXCEPT !.i = @ + 1])
    /\ UNCHANGED <<am, posts>>
EmitMerge(g) ==
    /\ emitters[g].pc = "merge" /\ emitters[g].i <= Len(emitters[g].alerts)
    /\ emitters[g].alerts[emitters[g].i] /= <<>>
    /\ Stepped(g, Merged(emitters[g],
                         MergeStepOf(emitters[g].form, am,
                                     emitters[g].alerts[emitters[g].i][1])))
    /\ am' = MergeStepOf(emitters[g].form, am, emitters[g].alerts[emitters[g].i][1]).a
    /\ UNCHANGED posts
EmitMarshal(g) ==
    /\ emitters[g].pc = "merge" /\ emitters[g].i > Len(emitters[g].alerts)
    /\ Stepped(g, MarshalStep(emitters[g], MarshalAlerts(emitters[g].final)))
    /\ UNCHANGED <<am, posts>>
EmitNewRequest(g) ==
    /\ emitters[g].pc = "request"
    /\ Stepped(g, RequestStep(am, emitters[g], NewRequest(am.endpoint, emitters[g].body)))
    /\ UNCHANGED <<am, posts>>
EmitSend(g) ==
    /\ emitters[g].pc = "do"
    /\ Stepped(g, DoStep(emitters[g]))
    /\ posts' = posts + 1
    /\ UNCHANGED am

InitConcurrent ==
    /\ \E endpoint \in EmitEndpoints :
            am = [ZeroAlertmanager EXCEPT !.endpoint = endpoint,
                                          !.labels = Map1("instance", "base"),
                                          !.annotations = Map1("summary", "base"),
                                          !.username = s_bob, !.password = s_frogs]
    /\ hc = ZeroHTTPClient
    /\ lastOpt = NoOption /\ applied = <<>> /\ lastSet = NothingSet
    /\ InitEmit
    /\ built = NotBuilt /\ orders = NoOrders /\ subject = <<>> /\ written = NothingWritten
    /\ shared = NothingShared
    /\ \E form \in Forms : emitters = [g \in Goroutines |-> Idle(form)]
NextConcurrent ==
    \E g \in Goroutines :
        \/ EmitStart(g)
        \/ EmitCheck(g)
        \/ EmitSkip(g)
        \/ EmitMerge(g)
        \/ EmitMarshal(g)
        \/ EmitNewRequest(g)
        \/ EmitSend(g)
SpecConcurrent == InitConcurrent /\ [][NextConcurrent]_vars

\* C22: with the configuration finished before the first call, Emit calls
\* that run at the same time on one client need no lock: no step of a call
\* writes a field of the client, and under every interleaving each call
\* hands client.Do the request, and returns the result, it would when run
\* alone.
C22_ConcurrentAsAlone ==
    \A g \in Goroutines :
        /\ emitters[g].pc /= "idle" => emitters[g].client = <<am>>
        /\ emitters[g].pc = "done" => emitters[g].out = emitters[g].solo[1]
\* two calls with different alerts in flight together: one has merged its
\* first alert, the other holds its request and is about to send it
C22_Witness ==
    /\ emitters[1].pc = "merge" /\ emitters[1].i = 2 /\ Len(emitters[1].final) = 1
    /\ emitters[2].pc = "do"
    /\ emitters[1].given /= emitters[2].given
    /\ emitters[2].req[1].Body = emitters[2].solo[1].requests[1].Body
    /\ emitters[1].form = "response"

\* C29: an Emit call, whatever its outcome, leaves the client (endpoint,
\* credentials, base labels and annotations) and every alert it was given
\* (labels, annotations, timestamps) as they were, in both forms of Emit;
\* two calls with the same alerts hand client.Do the same request.
C29_EmitChangesNothing ==
    \A g \in Goroutines :
        emitters[g].pc = "done" =>
            /\ emitters[g].client = <<am>>
            /\ emitters[g].alerts = emitters[g].given
            /\ \A h \in Goroutines :
                    emitters[h].pc = "done" /\ emitters[h].given = emitters[g].given =>
                        emitters[h].out.requests = emitters[g].out.requests
\* two calls with the same two alerts, one answered and one not, have sent
\* the same body
C29_Witness ==
    /\ emitters[1].pc = "done" /\ emitters[2].pc = "done"
    /\ emitters[1].given = << <<Severe>>, <<Critical>> >>
    /\ emitters[2].given = emitters[1].given
    /\ emitters[1].alerts = emitters[1].given
    /\ emitters[1].answer /= emitters[2].answer
    /\ Len(emitters[1].out.requests) = 1
    /\ emitters[1].out.requests[1].Body = emitters[2].out.requests[1].Body
    /\ am.labels = Map1("instance", "base")

(***************************************************************************)
(* The form of the stored endpoint for inputs with a query or a fragment.  *)
(***************************************************************************)
\* {scheme}://{host}[:port]/api/v2/alerts of a parsed URL
BaseForm(u) == u.Scheme \o <<":", "/", "/">> \o u.Host
ExactForm(u) == BaseForm(u) \o AlertsPath
Accepted == lastOpt.name = "WithEndpoint" /\ lastOpt.err = "nil"
BareURL(u) == u.RawQuery = <<>> /\ ~u.ForceQuery /\ u.Fragment = <<>>

\* C23: for every URL WithEndpoint accepts, the stored endpoint is exactly
\* {scheme}://{host}[:port]/api/v2/alerts, also when the input carries a query
\* string or a fragment.  What the code gives: the exact form precisely when
\* the input has neither query nor fragment; otherwise both stay in front of
\* the appended path.
C23_ExactFormWithoutQueryOrFragment ==
    Accepted =>
        /\ am.endpoint = ExactForm(ParseURL(lastOpt.raw)) <=> BareURL(ParseURL(lastOpt.raw))
        /\ \E q \in QueryParts, f \in FragmentParts :
                am.endpoint = BaseForm(ParseURL(lastOpt.raw)) \o q \o f \o AlertsPath
\* the claim as stated
C23_ExactForm ==
    Accepted => am.endpoint = ExactForm(ParseURL(lastOpt.raw))
C23_Witness ==
    /\ Accepted
    /\ lastOpt.raw = s_http \o s_hostport \o s_path \o <<"?", "q">> \o <<"#", "f">>
    /\ am.endpoint = s_http \o s_hostport \o <<"?", "q", "#", "f">> \o AlertsPath

(***************************************************************************)
(* The endpoint over a sequence of WithEndpoint applications.              *)
(***************************************************************************)
HasSuffix(s, p) == Len(s) >= Len(p) /\ From(s, Len(s) - Len(p) + 1) = p
\* what WithEndpoint(endpoint) stores on a client that has no endpoint yet
StoredBy(endpoint) == WithEndpoint(endpoint, [am |-> ZeroAlertmanager, hc |-> ZeroHTTPClient]).am.endpoint
WellFormedEndpoint(endpoint) ==
    /\ ParseURL(endpoint).err = "nil"
    /\ ParseURL(endpoint).Scheme /= <<>>
    /\ ParseURL(endpoint).Host /= <<>>
    /\ HasSuffix(endpoint, AlertsPath)

\* C27: over any sequence of WithEndpoint applications the endpoint is empty
\* or a URL with scheme and host that ends in /api/v2/alerts; a failed
\* application leaves the endpoint as it was, a successful one stores its own
\* value whatever was there, so the endpoint is always the one of the most
\* recent successful application.
C27_EndpointOfLastSuccess ==
    /\ [](am.endpoint = <<>> \/ WellFormedEndpoint(am.endpoint))
    /\ [](am.endpoint = <<>> => lastOpt.err /= "nil" \/ lastOpt.name = "")
    /\ [][/\ lastOpt'.err /= "nil" => am'.endpoint = am.endpoint
          /\ lastOpt'.err = "nil" =>
                am'.endpoint = StoredBy(lastOpt'.raw) /\ am'.endpoint /= <<>>]_vars
C27_Witness ==
    /\ lastOpt = [name |-> "WithEndpoint", raw |-> <<>>, err |-> "ErrEndpointRequired"]
    /\ am.endpoint = s_http \o s_hostport \o <<"?", "q">> \o AlertsPath

(***************************************************************************)
(* WithProxyURL on the empty string and on a string url.Parse rejects.     *)
(***************************************************************************)
s_unparsable == <<":", "x">>

\* C26: WithProxyURL("") returns nil and changes nothing, an absent transport
\* stays absent; WithProxyURL on a non-empty string url.Parse rejects returns
\* the invalid-proxy error and changes nothing; on any other string it
\* succeeds, the transport then has the static proxy of that URL, and the
\* timeout and the Alertmanager fields are as before.
C26_ProxyURLEmptyOrInvalid ==
    [][lastOpt'.name = "WithProxyURL" =>
        /\ lastOpt'.raw = <<>> => lastOpt'.err = "nil" /\ am' = am /\ hc' = hc
        /\ lastOpt'.raw = s_unparsable =>
                lastOpt'.err = "invalid proxy URL" /\ am' = am /\ hc' = hc
        /\ lastOpt'.raw /= <<>> /\ ParseURL(lastOpt'.raw).err /= "nil" =>
                lastOpt'.err = "invalid proxy URL" /\ am' = am /\ hc' = hc
        /\ lastOpt'.raw \in {s_proxy1, s_proxy2} =>
                /\ lastOpt'.err = "nil"
                /\ hc'.Transport /= <<>>
                /\ hc'.Transport[1].Proxy = ProxyURL(ParseURL(lastOpt'.raw))
                /\ hc'.Timeout = hc.Timeout /\ am' = am
        /\ (hc'.Transport /= hc.Transport) => lastOpt'.raw \in {s_proxy1, s_proxy2}]_vars
C26_Witness ==
    /\ lastOpt = [name |-> "WithProxyURL", raw |-> <<>>, err |-> "nil"]
    /\ applied = <<"WithProxyURL">>
    /\ hc.Transport = <<>>
C26_WitnessInvalid ==
    /\ lastOpt = [name |-> "WithProxyURL", raw |-> s_unparsable, err |-> "invalid proxy URL"]
    /\ applied = <<"WithInsecure">>
    /\ hc.Transport /= <<>> /\ hc.Transport[1].Proxy = ProxyFromEnvironment

(***************************************************************************)
(* SpecInstalled: the transport options of SpecTransport applied to an     *)
(* http.Client the caller handed over with a transport already installed:  *)
(* an *http.Transport without or with a TLS configuration, or a            *)
(* RoundTripper of another type.  orders.start keeps the client as handed  *)
(* over.                                                                   *)
(***************************************************************************)
InstalledClients == {h \in StartClients : h.Transport /= <<>>}
InitInstalled ==
    /\ am = ZeroAlertmanager
    /\ hc \in InstalledClients
    /\ lastOpt = NoOption /\ applied = <<>> /\ lastSet = NothingSet
    /\ InitEmit
    /\ built = NotBuilt /\ subject = <<>> /\ written = NothingWritten
    /\ emitters = <<>> /\ shared = NothingShared
    /\ orders = [NoOrders EXCEPT !.start = <<Client>>]
SpecInstalled == InitInstalled /\ [][NextTransport]_vars

TLSFields == {"RootCAs", "InsecureSkipVerify", "MinVersion", "MaxVersion"}
\* the field of the TLS configuration the option writes
OwnField(name) ==
    CASE name = "WithCustomCA" -> "RootCAs"
      [] name = "WithInsecure" -> "InsecureSkipVerify"
      [] name = "WithMinTLSVersion" -> "MinVersion"
      [] name = "WithMaxTLSVersion" -> "MaxVersion"
      [] OTHER -> ""
\* the step is a transport option that succeeded and had something to write
TransportOptionStep ==
    /\ lastOpt'.err = "nil"
    /\ \/ OwnField(lastOpt'.name) /= ""
       \/ lastOpt'.name = "WithProxyURL" /\ lastOpt'.raw /= <<>>
\* transport t with only the field of the option changed gives transport u
OnlyOwnFieldChanged(name, t, u) ==
    /\ u.kind = t.kind
    /\ name /= "WithProxyURL" => u.Proxy = t.Proxy
    /\ name = "WithProxyURL" => u.TLSClientConfig = t.TLSClientConfig
    /\ name /= "WithProxyURL" /\ t.TLSClientConfig /= <<>> =>
            \A f \in TLSFields \ {OwnField(name)} :
                u.TLSClientConfig[1][f] = t.TLSClientConfig[1][f]

\* C25: whatever transport is installed before a transport option, a
\* RoundTripper of another type included, is the transport in use afterwards
\* with only the option's own field changed.  What the code gives: that holds
\* for an installed *http.Transport; a RoundTripper of another type is
\* replaced by a new http.Transport that has nothing but the option's field
\* and the defaults of the option.
C25_StandardTransportKept ==
    [][TransportOptionStep =>
        /\ hc'.Transport /= <<>> /\ hc'.Transport[1].kind = "http.Transport"
        /\ hc.Transport[1].kind = "http.Transport" =>
                OnlyOwnFieldChanged(lastOpt'.name, hc.Transport[1], hc'.Transport[1])
        /\ hc.Transport[1].kind /= "http.Transport" =>
                /\ lastOpt'.name = "WithProxyURL" =>
                        OnlyOwnFieldChanged(lastOpt'.name, NewTransport(NoProxy), hc'.Transport[1])
                /\ lastOpt'.name /= "WithProxyURL" =>
                        OnlyOwnFieldChanged(lastOpt'.name, NewTransport(ProxyFromEnvironment),
                                            hc'.Transport[1])]_vars
\* the claim as stated
C25_InstalledTransportKept ==
    [][TransportOptionStep =>
        OnlyOwnFieldChanged(lastOpt'.name, hc.Transport[1], hc'.Transport[1])]_vars
\* WithInsecure(true) on a client handed over with a RoundTripper of another
\* type: an http.Transport is in its place
C25_Witness ==
    /\ orders.start[1].hc.Transport = <<CustomRoundTripper>>
    /\ lastOpt.name = "WithInsecure" /\ applied = <<"WithInsecure">>
    /\ hc.Transport[1].kind = "http.Transport"
    /\ hc.Transport[1].Proxy = ProxyFromEnvironment
    /\ hc.Transport[1].TLSClientConfig[1].InsecureSkipVerify

(***************************************************************************)
(* NewAlertmanagerWithArgs beside NewAlertmanager on the option list the   *)
(* Args stand for.                                                         *)
(***************************************************************************)
\* one optional entry of the list
When(set, o) == IF set THEN <<o>> ELSE <<>>
\* the list written out for the Args a: the endpoint, the timeout (2s for
\* none), then one option per field that is set, in the order of the fields
ListFor(a, env) ==
    << OptEndpoint(a.AlertmanagerURL) >>
    \o << OptTimeout(IF a.Timeout = 0 THEN 2 ELSE a.Timeout) >>
    \o When(a.Username /= <<>> /\ a.Password /= <<>>, OptBasicAuth(a.Username, a.Password))
    \o When(a.TLSCACertPath /= "", OptCustomCA(env.file.content, env.sys))
    \o When(a.TLSInsecureSkipVerify, OptInsecure(TRUE))
    \o When(a.ProxyURL /= <<>>, OptProxyURL(a.ProxyURL))
    \o When(a.TLSMinVersion /= "",
            OptMinTLSVersion(StringToSecureTLSVersion(a.TLSMinVersion).version))
    \o When(a.TLSMaxVersion /= "",
            OptMaxTLSVersion(StringToSecureTLSVersion(a.TLSMaxVersion).version))
\* NewAlertmanager on a new http.Client with that list
Listed == NewAlertmanager(<<ZeroHTTPClient>>, ListFor(built.input.args, built.input.env))
\* the same client configuration, or failure on both sides
SameOutcome(r) ==
    IF r.err = "nil"
    THEN built.out.err = "nil" /\ built.out.am = r.am /\ <<hc>> = r.hc
    ELSE built.out.err /= "nil" /\ built.out.am = <<>>
\* what NewAlertmanagerWithArgs checks itself before any option exists
ChecksPass(a, env) ==
    /\ a.AlertmanagerURL /= <<>>
    /\ (a.Username = <<>>) = (a.Password = <<>>)
    /\ a.TLSCACertPath /= "" => env.file.ok
    /\ a.TLSMinVersion \in {"", "TLS12", "TLS13"}
    /\ a.TLSMaxVersion \in {"", "TLS12", "TLS13"}

C24_WitnessPartial ==
    /\ WithArgs /\ built.input.args.Enabled
    /\ built.input.args.Username = s_bob /\ built.input.args.Password = <<>>
    /\ built.out.err = "both basic auth username and password must be provided together"
    /\ Listed.err = "nil"

(***************************************************************************)
(* The TLS versions of a client made by NewAlertmanagerWithArgs.           *)
(***************************************************************************)
\* some field of the Args asks for an option that needs a TLS configuration
WantsTLS(a) ==
    \/ a.TLSCACertPath /= "" \/ a.TLSInsecureSkipVerify
    \/ a.TLSMinVersion /= "" \/ a.TLSMaxVersion /= ""

\* C30: a client returned by NewAlertmanagerWithArgs has a TLS configuration
\* exactly when a TLS field of the Args is set; its minimum version is then
\* TLS 1.2 or TLS 1.3 (TLS 1.2 when the Args name none, whichever option made
\* the configuration), its maximum version unset, TLS 1.2 or TLS 1.3.
C30_SecureVersionsOnly ==
    WithArgs /\ built.out.am /= <<>> =>
        /\ TLSConfigOf(hc) /= <<>> <=> WantsTLS(built.input.args)
        /\ TLSConfigOf(hc) /= <<>> =>
                /\ TLSConfigOf(hc)[1].MinVersion \in {TLS12, TLS13}
                /\ TLSConfigOf(hc)[1].MaxVersion \in {0, TLS12, TLS13}
                /\ built.input.args.TLSMinVersion = "" => TLSConfigOf(hc)[1].MinVersion = TLS12
                /\ built.input.args.TLSMinVersion = "TLS13" =>
                        TLSConfigOf(hc)[1].MinVersion = TLS13
                /\ built.input.args.TLSMaxVersion = "" => TLSConfigOf(hc)[1].MaxVersion = 0
\* WithInsecure made the configuration, WithMaxTLSVersion came after it: the
\* minimum is the TLS 1.2 the configuration started with
C30_Witness ==
    /\ WithArgs /\ built.out.am /= <<>>
    /\ built.input.args.TLSCACertPath = "" /\ built.input.args.TLSInsecureSkipVerify
    /\ built.input.args.TLSMinVersion = "" /\ built.input.args.TLSMaxVersion = "TLS13"
    /\ TLSConfigOf(hc) /= <<>>
    /\ TLSConfigOf(hc)[1].MinVersion = TLS12 /\ TLSConfigOf(hc)[1].MaxVersion = TLS13

(***************************************************************************)
(* SpecShared: NewAlertmanager called again and again on http.Client       *)
(* objects the caller keeps.  shared.heap holds the objects by address;    *)
(* the constructor is handed an address, stores it in the client it        *)
(* returns, and every option writes through it.  shared.made holds the     *)
(* clients returned so far, shared.last the last call.                     *)
(***************************************************************************)
MaxListed == 2
\* the one http.Client object the caller keeps
Addresses == {1}
SharedPool ==
    {OptTimeout(30), OptInsecure(TRUE), OptProxyURL(s_proxy1), OptEndpoint(s_endpoint),
     OptEndpoint(<<>>)}
SharedLists == UNION {[1..n -> SharedPool] : n \in 0..MaxListed}

\* a constructor that puts the http.Client back as it was when an option fails
ReturnedAt_RolledBack(heap, addr, r) ==
    [heap |-> IF r.err /= "nil" THEN heap ELSE [heap EXCEPT ![addr] = r.hc[1]],
     client |-> IF r.err /= "nil" THEN <<>> ELSE <<[am |-> r.am[1], client |-> addr]>>,
     err |-> r.err, trace |-> r.trace]
\* what the caller has once NewAlertmanager has given r on the object at
\* addr; am.client = client, so what the options did is in that object
\* whether the constructor returns the client or the error
ReturnedAt(heap, addr, r) ==
    [heap |-> [heap EXCEPT ![addr] = r.hc[1]],
     client |-> IF r.err /= "nil" THEN <<>> ELSE <<[am |-> r.am[1], client |-> addr]>>,
     err |-> r.err, trace |-> r.trace]
\* NewAlertmanager(logger, client, options...) with client the address addr
NewAlertmanagerAt(heap, addr, options) ==
    ReturnedAt(heap, addr, NewAlertmanager(<<heap[addr]>>, options))

ConstructedAt(addr, options, r) ==
    /\ shared' = [heap |-> r.heap,
                  made |-> shared.made \cup {r.client[i] : i \in 1..Len(r.client)},
                  last |-> <<[addr |-> addr, options |-> options, before |-> shared.heap,
                              client |-> r.client, err |-> r.err, trace |-> r.trace]>>]
    /\ hc' = r.heap[addr]
    /\ am' = IF r.client /= <<>> THEN r.client[1].am ELSE am
    /\ UNCHANGED <<lastOpt, applied, lastSet>>
    /\ UNCHANGED emitVars
    /\ UNCHANGED <<built, orders, subject, written, emitters>>
ConstructOnShared ==
    \E addr \in Addresses, options \in SharedLists :
        ConstructedAt(addr, options, NewAlertmanagerAt(shared.heap, addr, options))

InitShared ==
    /\ InitClient /\ InitEmit
    /\ built = NotBuilt /\ orders = NoOrders /\ subject = <<>> /\ written = NothingWritten
    /\ emitters = <<>>
    /\ shared = [NothingShared EXCEPT !.heap = [addr \in Addresses |-> ZeroHTTPClient]]
NextShared == ConstructOnShared
SpecShared == InitShared /\ [][NextShared]_vars

\* the http.Client h after the options were applied to it in order
AfterOptions(h, options) ==
    ApplyAll([am |-> ZeroAlertmanager, hc |-> h], options, 1, <<>>).hc[1]
\* the http.Client the client m sends with
ClientOf(m) == shared.heap[m.client]

\* C28: NewAlertmanager works on the caller's http.Client itself and undoes
\* nothing: when option k fails, no client is returned and the object holds
\* what options 1..k-1 did to it; on success it holds what all of them did;
\* every client made on the object sends
\* with the object as the latest call left it.
C28_InPlaceNoRollback ==
    shared.last /= <<>> =>
        /\ shared.last[1].err /= "nil" =>
                /\ shared.last[1].client = <<>>
                /\ shared.last[1].trace /= <<>>
                /\ shared.heap[shared.last[1].addr] =
                        AfterOptions(shared.last[1].before[shared.last[1].addr],
                                     SubSeq(shared.last[1].options, 1,
                                            Len(shared.last[1].trace) - 1))
        /\ shared.last[1].err = "nil" =>
                /\ shared.last[1].client /= <<>>
                /\ shared.last[1].client[1].client = shared.last[1].addr
                /\ shared.heap[shared.last[1].addr] =
                        AfterOptions(shared.last[1].before[shared.last[1].addr],
                                     shared.last[1].options)
        /\ \A m \in shared.made :
                m.client = shared.last[1].addr => ClientOf(m) = hc
\* a client was made on object 1 with its endpoint alone; a later call on
\* object 1 with WithInsecure, WithEndpoint("") failed: the first client now
\* sends without certificate verification
C28_Witness ==
    /\ shared.last /= <<>>
    /\ shared.last[1].addr = 1
    /\ shared.last[1].options = << OptInsecure(TRUE), OptEndpoint(<<>>) >>
    /\ shared.last[1].err = "ErrEndpointRequired"
    /\ shared.last[1].before[1] = ZeroHTTPClient
    /\ \E m \in shared.made :
            /\ m.client = 1
            /\ TLSConfigOf(ClientOf(m)) /= <<>>
            /\ TLSConfigOf(ClientOf(m))[1].InsecureSkipVerify
====
